---- MODULE Spec2Model ----
(***************************************************************************)
(* Step Playback Controller of the Visualizer component.                   *)
(*                                                                         *)
(* The repository carries two iterations of the component that hold the    *)
(* play / pause / step / reset machine: src/unnamed/part_004 and           *)
(* src/unnamed/part_005.  The variable `variant` selects which iteration a *)
(* behaviour runs; every definition below is the part_004 text, and where  *)
(* part_005 differs the definition branches on the variant.                *)
(*                                                                         *)
(* One action is one JavaScript task: an event handler, or the part of an  *)
(* async function between two awaits.  React state written by a task is    *)
(* rendered before the next task runs, so handlers read the state of the   *)
(* last commit and stepsRef (synced by an effect after every commit) is    *)
(* the variable `steps`.                                                   *)
(***************************************************************************)
EXTENDS Integers, Sequences, FiniteSets, TLC

\* Longest execution trace the backend returns in the model.
MaxLen == 2
\* Most playLoop invocations that sleep in their inter-step delay at once.
MaxLoops == 2
\* Most modules of an analysis result, and most entries of its edges[].
MaxMods == 2
MaxEdges == 1

VARIABLES
    variant,      \* which iteration of Visualizer runs
    steps,        \* useState steps, and stepsRef.current
    curStep,      \* useState curStep / currentStep
    playing,      \* useState playing
    playRef,      \* playRef.current
    loading,      \* useState loading
    error,        \* useState error
    rendered,     \* useState rendered
    mermaidReady, \* module variable mermaidReady
    box,          \* the content of svgRef.current / svgBoxRef.current
    hovered,      \* index of the diagram node under the pointer, 0 for none
    loadPc,       \* the await at which the running loadFlow is suspended
    loadData,     \* `data` of the running loadFlow
    loadCur,      \* `curStep` closed over by the running loadFlow
    loops,        \* the playLoop invocations suspended in their delay
    lastCmd,      \* history: the last user event or direct call
    activeFile,   \* the activeFile prop: App's activeTab
    flowCur,      \* part_005: `currentStep` closed over by the loadFlow callback
    loadFile,     \* `activeFile` closed over by the running loadFlow
    stepsFile,    \* history: the file whose trace `steps` and the box hold
    speed,        \* useState speed, and speedRef.current
    lay,          \* the running call of forceLayout: its locals and position
    before,       \* history: the diagram state when Visualize was pressed
    cm,           \* CodeMap: state.current
    env,          \* CodeMap: the graph prop, the canvas, the clock, the timers, the pointer
    out,          \* history: the last pointer event of the CodeMap and the callbacks it invoked
    layouts,      \* what forceLayout returns for the analysis results CodeMap is given
    term,         \* App's terminal panel and the Terminal component
    ed,           \* App's editor tabs, the files of the backend, the requests in flight
    boot          \* the Electron main process: its start-up handler and waitForServer

vars == <<variant, steps, curStep, playing, playRef, loading, error, rendered,
          mermaidReady, box, hovered, loadPc, loadData, loadCur, loops, lastCmd,
          activeFile, flowCur, loadFile, stepsFile, before, speed, lay,
          cm, env, out, layouts, term, ed, boot>>

\* App's own state and the components beside the two visualizations.
appVars == <<term, ed, boot>>

\* The CodeMap component, which shares nothing with the Visualizer.
mapVars == <<cm, env, out, layouts>>

\* What no handler of the Visualizer writes: its props and the closure of
\* the loadFlow callback, which only a render with a new activeFile rebuilds.
hostVars == <<variant, activeFile, flowCur, speed, lay, mapVars, appVars>>

V4 == "part_004"
V5 == "part_005"

----------------------------------------------------------------------------
(* Strings as sequences of characters, so that String.includes and the     *)
(* CSS selector [id*=...] are computed and not assumed.                    *)

Includes(hay, needle) ==
    \E k \in 1..(Len(hay) - Len(needle) + 1) :
        SubSeq(hay, k, k + Len(needle) - 1) = needle

RECURSIVE SumOver(_, _)
SumOver(f, S) ==
    IF S = {} THEN 0
    ELSE LET x == CHOOSE y \in S : TRUE IN f[x] + SumOver(f, S \ {x})

Min(S) == CHOOSE x \in S : \A y \in S : x <= y

----------------------------------------------------------------------------
(* What the backend and the diagram renderer return.                       *)

NoParent == -1

Digit == <<"1", "2", "3", "4", "5", "6">>
Zeros(k) == [x \in 1..k |-> "0"]

Shapes == {"chain1", "chain0", "prefix"}

\* sid of the j-th step: n1, n2, n3 ... or, for "prefix", n1, n10, n100 ...
SidOf(shape, j) ==
    IF shape = "prefix" THEN <<"n", "1">> \o Zeros(j - 1) ELSE <<"n", Digit[j]>>

FirstId(shape) == IF shape = "chain0" THEN 0 ELSE 1

KindOf(j) == IF j = 1 THEN "start" ELSE IF j = 2 THEN "call" ELSE "returnStmt"

\* A trace of L steps, each step the child of the step before it.
TraceSteps(L, shape) ==
    [j \in 1..L |->
        [id     |-> FirstId(shape) + j - 1,
         sid    |-> SidOf(shape, j),
         parent |-> IF j = 1 THEN NoParent ELSE FirstId(shape) + j - 2,
         kind   |-> KindOf(j)]]

\* The response of POST /visualize: the flowchart text stands for the nodes
\* and edges the renderer draws from it.
Response(L, shape) ==
    [mermaid |-> TRUE,
     steps   |-> TraceSteps(L, shape),
     nodes   |-> [j \in 1..L |-> SidOf(shape, j)],
     edges   |-> [j \in 1..(L - 1) |-> <<SidOf(shape, j), SidOf(shape, j + 1)>>]]

NoDiagram == [mermaid |-> FALSE, steps |-> <<>>, nodes |-> <<>>, edges |-> <<>>]

Responses == {Response(L, s) : L \in 0..MaxLen, s \in Shapes} \cup {NoDiagram}

\* Element ids the renderer gives to a node and to an edge.
NodeId(name) == <<"flowchart", "-">> \o name \o <<"-", "0">>
EdgeId(from, to) == <<"L", "-">> \o from \o <<"-">> \o to \o <<"-", "0">>

----------------------------------------------------------------------------
(* The diagram container.                                                  *)

EmptyBox == [svg |-> FALSE, node |-> <<>>, edge |-> <<>>, steps |-> <<>>, hoverCur |-> -1]

\* svgRef.current / svgBoxRef.current is null: the component is not mounted
\* (App renders Visualizer only while rightTab is 'visualize').
\* `ref.current?.querySelector('svg')` then finds no svg.
NoBox == [svg |-> FALSE, node |-> <<>>, edge |-> <<>>, steps |-> <<>>, hoverCur |-> -1,
          null |-> TRUE]

\* box.innerHTML = svg, then the styling pass of loadFlow over the new svg:
\* nodes get only cursor/transition (opacity and filter stay at their
\* defaults, full opacity and no filter); every `.edge path` gets
\* strokeWidth 2 and opacity 0.7.  `cur` is the curStep the mouseenter and
\* mouseleave listeners close over.
RenderedBox(data, cur) ==
    [svg      |-> TRUE,
     node     |-> [k \in 1..Len(data.nodes) |->
                     [id |-> NodeId(data.nodes[k]), opacity |-> 100, filter |-> "none"]],
     edge     |-> [k \in 1..Len(data.edges) |->
                     [id |-> EdgeId(data.edges[k][1], data.edges[k][2]),
                      opacity |-> 70, stroke |-> "", strokeWidth |-> "2",
                      strokeDasharray |-> "", animation |-> ""]],
     steps    |-> data.steps,
     hoverCur |-> cur]

\* svg.querySelector(`[id*="flowchart-${sid}-"]`): the first node, in
\* document order, whose id contains the text; 0 when there is none.
\* part_005 falls back to svg.getElementById(sid).
Selector(sid) == <<"flowchart", "-">> \o sid \o <<"-">>

QueryNode(v, b, sid) ==
    LET hit  == {k \in 1..Len(b.node) : Includes(b.node[k].id, Selector(sid))}
        byId == {k \in 1..Len(b.node) : b.node[k].id = sid}
    IN  IF hit # {} THEN Min(hit)
        ELSE IF v = V5 /\ byId # {} THEN Min(byId)
        ELSE 0

\* Opacity, in hundredths, that dimAll gives nodes and edges and that
\* showStep gives the nodes of the trail behind the shown step.
NodeDim(v)  == IF v = V4 THEN 20 ELSE 25
EdgeDim(v)  == IF v = V4 THEN 8 ELSE 10
TrailDim(v) == IF v = V4 THEN 50 ELSE 55

GlowColor(kind) ==
    CASE kind = "start"     -> "#58a6ff"
      [] kind = "define"    -> "#bc8cff"
      [] kind = "call"      -> "#3fb950"
      [] kind = "import"    -> "#39d2c0"
      [] kind = "condition" -> "#d29922"
      [] kind = "loop"      -> "#f778ba"
      [] kind = "return"    -> "#f85149"
      [] kind = "class"     -> "#d29922"
      [] kind = "assign"    -> "#8b949e"
      [] OTHER              -> "#58a6ff"

Glows == {"#58a6ff", "#bc8cff", "#3fb950", "#39d2c0", "#d29922", "#f778ba",
          "#f85149", "#8b949e"}

dimAll(v, b) ==
    IF ~b.svg THEN b
    ELSE [b EXCEPT
            !.node = [k \in 1..Len(b.node) |->
                        [b.node[k] EXCEPT !.opacity = NodeDim(v), !.filter = "none"]],
            !.edge = [k \in 1..Len(b.edge) |->
                        [b.edge[k] EXCEPT !.opacity = EdgeDim(v)]]]

resetAll(v, b) ==
    IF ~b.svg THEN b
    ELSE [b EXCEPT
            !.node = [k \in 1..Len(b.node) |->
                        [b.node[k] EXCEPT !.opacity = 100, !.filter = "none"]],
            !.edge = [k \in 1..Len(b.edge) |->
                        IF v = V4
                        THEN [b.edge[k] EXCEPT !.opacity = 70, !.stroke = "",
                                               !.strokeWidth = "", !.strokeDasharray = "",
                                               !.animation = ""]
                        ELSE [b.edge[k] EXCEPT !.opacity = 70]]]

glowNode(v, b, sid, kind) ==
    IF ~b.svg THEN b
    ELSE LET n == QueryNode(v, b, sid)
         IN  IF n = 0 THEN b
             ELSE [b EXCEPT !.node[n].opacity = 100, !.node[n].filter = GlowColor(kind)]

glowEdge(b, fromSid, toSid) ==
    IF ~b.svg THEN b
    ELSE [b EXCEPT
            !.edge = [k \in 1..Len(b.edge) |->
                        IF Includes(b.edge[k].id, fromSid) /\ Includes(b.edge[k].id, toSid)
                        THEN [b.edge[k] EXCEPT !.opacity = 100, !.stroke = "#58a6ff",
                                               !.strokeWidth = "3",
                                               !.strokeDasharray = "8 4",
                                               !.animation = "flow"]
                        ELSE b.edge[k]]]

\* `if (s.parent)`: undefined and 0 are both falsy.
Truthy(parent) == parent # NoParent /\ parent # 0

\* all.find(x => x.id === pid): index of the first such step, 0 for none.
FindStep(all, pid) ==
    LET hit == {k \in 1..Len(all) : all[k].id = pid}
    IN  IF hit = {} THEN 0 ELSE Min(hit)

\* One pass of the trail loop of showStep, for the 0-based index i.
TrailStep(v, all, b, i, idx) ==
    IF ~b.svg THEN b
    ELSE LET s  == all[i + 1]
             n  == QueryNode(v, b, s.sid)
             b1 == IF n = 0 THEN b
                   ELSE IF i = idx
                        THEN glowNode(v, [b EXCEPT !.node[n].opacity = 100], s.sid, s.kind)
                        ELSE [b EXCEPT !.node[n].opacity = TrailDim(v)]
             ps == IF Truthy(s.parent) THEN FindStep(all, s.parent) ELSE 0
         IN  IF ps = 0 THEN b1 ELSE glowEdge(b1, all[ps].sid, s.sid)

RECURSIVE Trail(_, _, _, _, _)
Trail(v, all, b, i, idx) ==
    IF i > idx THEN b ELSE Trail(v, all, TrailStep(v, all, b, i, idx), i + 1, idx)

showStepNoLowerBound(v, all, b, cur, idx) ==
    IF idx >= Len(all) THEN [curStep |-> cur, box |-> b]
    ELSE [curStep |-> idx, box |-> Trail(v, all, dimAll(v, b), 0, idx)]

\* showStep(idx): the box and the curStep it leaves.
showStep(v, all, b, cur, idx) ==
    IF idx < 0 \/ idx >= Len(all) THEN [curStep |-> cur, box |-> b]
    ELSE [curStep |-> idx, box |-> Trail(v, all, dimAll(v, b), 0, idx)]

----------------------------------------------------------------------------
(* The suspended playLoop invocations: how many sleep with local index i.  *)
(* `stale` is history: Pause, StepForward, Reset or Visualize has run      *)
(* since the invocation started.                                           *)

LoopKeys == (1..MaxLen) \X BOOLEAN
NoLoops == [k \in LoopKeys |-> 0]
Pending(l) == SumOver(l, LoopKeys)
Cancelled(l) ==
    [k \in LoopKeys |-> IF k[2] THEN l[k] + l[<<k[1], FALSE>>] ELSE 0]

Cmd(op, arg) == [op |-> op, arg |-> arg]

\* <input type="range" min="200" max="2000" step="100">
SliderMin == 200
SliderMax == 2000
SliderStep == 100
SliderPositions == {v \in SliderMin..SliderMax : (v - SliderMin) % SliderStep = 0}

\* useState(800), useRef(800)
DefaultSpeed == 800

SpeedOfUsesMax(v) == SliderMax - v

\* onChange: setSpeed(2200 - +e.target.value)
SpeedOf(v) == 2200 - v

SliderValueUsesMax(ms) == SliderMax - ms

\* value={2200 - speed}: the position the slider displays
SliderValue(ms) == 2200 - ms

\* setTimeout(r, speedRef.current): the delay playLoop waits after a step
LoopDelay == speed

----------------------------------------------------------------------------
(* forceLayout of the Code Map, src/unnamed/part_007.                      *)
(*                                                                         *)
(* Lengths are fixed-point numbers: positions and velocities in 1/1000 px, *)
(* distances in whole px, start delays in ms.  Node and edge objects are   *)
(* records; a reference to a node is its 1-based index in `nodes`.         *)

\* for (let iter = 0; iter < 80; iter++)
Iterations == 80
\* const margin = 40
Margin == 40

\* What nodeMap[key] yields: undefined, or a property {} inherits from
\* Object.prototype (truthy, and not a node).
Undefined == 0
Inherited == -1
ObjectPrototypeKeys == {"constructor"}

\* The analysis results the backend is taken to send.
ModulePaths == {"a.py", "b.py"}
Module(p, fs, cs) == [module |-> p, functions |-> fs, classes |-> cs]
ModuleShapes ==
    {Module("a.py", <<"f">>, <<>>), Module("b.py", <<>>, <<"C">>),
     Module("a.py", <<"f", "g", "h">>, <<"C", "D">>), Module("b.py", <<>>, <<>>)}
ModuleLists == UNION {[1..n -> ModuleShapes] : n \in 0..MaxMods}
\* graph.modules absent, or a list
NoModules == [absent |-> TRUE, modules |-> <<>>]
Graphs == {NoModules} \cup {[absent |-> FALSE, modules |-> ms] : ms \in ModuleLists}

\* The source and target of an edges[] entry: module paths, a path of no
\* module, the id of a member node, an inherited property name.
EdgeEnds == ModulePaths \cup {"x.py", "a.py::f", "constructor"}
EdgeEntries == {[source |-> s, target |-> t] : s \in EdgeEnds, t \in EdgeEnds}
EdgeLists == UNION {[1..n -> EdgeEntries] : n \in 0..MaxEdges}

\* The sizes getBoundingClientRect gives for the canvas.
CanvasSizes == {<<0, 0>>, <<60, 300>>, <<300, 200>>}

Max2(a, b) == IF a > b THEN a ELSE b
Min2(a, b) == IF a < b THEN a ELSE b

\* Math.cos / Math.sin of (k / n) * 2 * PI - PI / 2, times 1000, for the
\* n <= 4 the model reaches.
CosMilli(k, n) ==
    IF n = 3 THEN (IF k = 1 THEN 866 ELSE IF k = 2 THEN -866 ELSE 0)
    ELSE IF n = 4 THEN (IF k = 1 THEN 1000 ELSE IF k = 3 THEN -1000 ELSE 0)
    ELSE 0
SinMilli(k, n) ==
    IF k = 0 THEN -1000
    ELSE IF n = 2 THEN 1000
    ELSE IF n = 3 THEN 500
    ELSE (IF k = 2 THEN 1000 ELSE 0)

\* Math.sqrt, rounded down to a whole number.
RECURSIVE SqrtBetween(_, _, _)
SqrtBetween(n, lo, hi) ==
    IF lo >= hi THEN lo
    ELSE LET mid == (lo + hi + 1) \div 2
         IN  IF mid * mid <= n THEN SqrtBetween(n, mid, hi)
             ELSE SqrtBetween(n, lo, mid - 1)
Sqrt(n) == SqrtBetween(n, 0, 2048)

\* new GNode(id, label, type, x, y, delay, r): the fields the layout and the
\* start timers read.
GNode(id, type, x, y, delay, r) ==
    [id |-> id, type |-> type, tx |-> x, ty |-> y, delay |-> delay, r |-> r]

\* new GEdge(src, tgt, label, color, delay)
GEdge(src, tgt, label, delay) ==
    [src |-> src, tgt |-> tgt, label |-> label, delay |-> delay]

\* nodeMap[key] after the nodes were entered in list order: the last node
\* entered under the key, else what the empty object inherits.
Lookup(nodes, key) ==
    LET hit == {n \in 1..Len(nodes) : nodes[n].id = key}
    IN  IF hit # {} THEN CHOOSE n \in hit : \A m \in hit : m <= n
        ELSE IF key \in ObjectPrototypeKeys THEN Inherited
        ELSE Undefined

\* 1. the module nodes, on a circle around the centre of the canvas.
ModuleNode(mods, i, W, H) ==
    LET baseR == Min2(W, H) * 320
    IN  GNode(mods[i + 1].module, "module",
              W * 500 + (CosMilli(i, Len(mods)) * baseR) \div 1000,
              H * 500 + (SinMilli(i, Len(mods)) * baseR) \div 1000,
              i * 100, 24)

ModuleNodes(mods, W, H) == [n \in 1..Len(mods) |-> ModuleNode(mods, n - 1, W, H)]

TakeThree(list, k) == SubSeq(list, 1, Min2(Len(list), 3))

\* list.slice(0, k)
Slice(list, k) == SubSeq(list, 1, Min2(Len(list), k))

\* 2. the children of a module: up to 2 functions, then up to 1 class.
Children(mod) ==
    LET fs == Slice(mod.functions, 2)
        cs == Slice(mod.classes, 1)
    IN  [j \in 1..Len(fs) |-> [name |-> fs[j], type |-> "function"]]
        \o [j \in 1..Len(cs) |-> [name |-> cs[j], type |-> "class"]]

ChildId(mod, ch) == mod.module \o "::" \o ch.name

\* the start delay of the j-th child of module i: i * 0.1 + (j + 1) * 0.06
ChildDelay(i, j) == i * 100 + (j + 1) * 60

\* the start delay of the edge to it: i * 0.1 + (j + 1) * 0.08
ChildEdgeDelay(i, j) == i * 100 + (j + 1) * 80


RECURSIVE AddChildren(_, _, _, _)
AddChildren(mods, i, nodes, edges) ==
    IF i >= Len(mods) THEN [nodes |-> nodes, edges |-> edges]
    ELSE LET mod    == mods[i + 1]
             parent == Lookup(nodes, mod.module)
             ch     == Children(mod)
             cns    == [j \in 1..Len(ch) |->
                          GNode(ChildId(mod, ch[j]), ch[j].type,
                                nodes[parent].tx + CosMilli(j - 1, Len(ch)) * 50,
                                nodes[parent].ty + SinMilli(j - 1, Len(ch)) * 50,
                                ChildDelay(i, j - 1), 14)]
             ces    == [j \in 1..Len(ch) |->
                          GEdge(parent, Len(nodes) + j, "", ChildEdgeDelay(i, j - 1))]
         IN  AddChildren(mods, i + 1, nodes \o cns, edges \o ces)

RECURSIVE SumTo(_, _)
SumTo(f, n) == IF n = 0 THEN 0 ELSE f[n] + SumTo(f, n - 1)

Px(v) == v \div 1000

\* Math.sqrt(dx * dx + dy * dy) || 1
Dist(dx, dy) == LET d == Sqrt(dx * dx + dy * dy) IN IF d = 0 THEN 1 ELSE d

\* Repulsion of the pair i < j: what is added to the velocity of i and
\* subtracted from that of j.
Repulsion(nodes, P, i, j) ==
    LET dx      == Px(P[i].x - P[j].x)
        dy      == Px(P[i].y - P[j].y)
        minDist == ((nodes[i].r + nodes[j].r) * 5) \div 2
        dist    == Max2(Dist(dx, dy), minDist)
        force   == 3000000 \div (dist * dist)
    IN  [x |-> (dx * force) \div dist, y |-> (dy * force) \div dist]

\* The spring of edge e: what is added to the velocity of its source and
\* subtracted from that of its target.
Spring(P, e) ==
    LET dx    == Px(P[e.tgt].x - P[e.src].x)
        dy    == Px(P[e.tgt].y - P[e.src].y)
        dist  == Dist(dx, dy)
        force == (dist - 70) * 5
    IN  [x |-> (dx * force) \div dist, y |-> (dy * force) \div dist]

ClampNoFloor(v, dim) == Min2((dim - Margin) * 1000, v)

\* Math.max(margin, Math.min(W - margin, x))
Clamp(v, dim) == Max2(Margin * 1000, Min2((dim - Margin) * 1000, v))

\* One iteration of the solver over `edges`, the edges that exist while it
\* runs: repulsion, springs, centre gravity, damping, move, clamp.
Iterate(nodes, edges, P, V, W, H) ==
    LET n == Len(nodes)
        rep(i) ==
            LET f == [j \in 1..n |->
                        IF j = i THEN [x |-> 0, y |-> 0]
                        ELSE IF i < j THEN Repulsion(nodes, P, i, j)
                        ELSE LET r == Repulsion(nodes, P, j, i)
                             IN  [x |-> 0 - r.x, y |-> 0 - r.y]]
            IN  [x |-> SumTo([j \in 1..n |-> f[j].x], n),
                 y |-> SumTo([j \in 1..n |-> f[j].y], n)]
        spr(i) ==
            LET f == [k \in 1..Len(edges) |->
                        LET s == Spring(P, edges[k])
                        IN  IF edges[k].src = i /\ edges[k].tgt = i THEN [x |-> 0, y |-> 0]
                            ELSE IF edges[k].src = i THEN s
                            ELSE IF edges[k].tgt = i THEN [x |-> 0 - s.x, y |-> 0 - s.y]
                            ELSE [x |-> 0, y |-> 0]]
            IN  [x |-> SumTo([k \in 1..Len(edges) |-> f[k].x], Len(edges)),
                 y |-> SumTo([k \in 1..Len(edges) |-> f[k].y], Len(edges))]
        vel == [i \in 1..n |->
                  LET r == rep(i)
                      s == spr(i)
                  IN  [x |-> ((V[i].x + r.x + s.x + (W * 500 - P[i].x) \div 1000) * 85) \div 100,
                       y |-> ((V[i].y + r.y + s.y + (H * 500 - P[i].y) \div 1000) * 85) \div 100]]
    IN  [V |-> vel,
         P |-> [i \in 1..n |-> [x |-> Clamp(P[i].x + vel[i].x, W),
                                y |-> Clamp(P[i].y + vel[i].y, H)]]]

\* Truthiness of what nodeMap yields.
IsNode(ref) == ref # Undefined

KnownModule(nodes, key) ==
    LET ref == Lookup(nodes, key) IN ref > 0 /\ nodes[ref].type = "module"

\* the start delay of the edge of entry i of edges[]: mods.length * 0.1 + i * 0.12
CrossDelay(nMods, i) == nMods * 100 + i * 120

\* 4. gEdges.forEach((e, i) => { ... if (s && t) edges.push(...) })
RECURSIVE CrossEdges(_, _, _, _)
CrossEdges(nodes, nMods, gEdges, i) ==
    IF i >= Len(gEdges) THEN <<>>
    ELSE LET s == Lookup(nodes, gEdges[i + 1].source)
             t == Lookup(nodes, gEdges[i + 1].target)
         IN  (IF IsNode(s) /\ IsNode(t)
              THEN <<GEdge(s, t, "imports", CrossDelay(nMods, i))>>
              ELSE <<>>) \o CrossEdges(nodes, nMods, gEdges, i + 1)

\* The positions and velocities after n more iterations of the solver
\* loop.  (The iterations are computed in two halves, one after the other,
\* and `half` ranges over a one-element set, so that no iteration is
\* computed twice.)
RECURSIVE Solve(_, _, _, _, _, _, _)
Solve(nodes, edges, P, V, W, H, n) ==
    IF n = 0 THEN [P |-> P, V |-> V]
    ELSE IF n = 1 THEN Iterate(nodes, edges, P, V, W, H)
    ELSE CHOOSE result \in
             {Solve(nodes, edges, half.P, half.V, W, H, n - n \div 2) :
                  half \in {Solve(nodes, edges, P, V, W, H, n \div 2)}} : TRUE

\* const positions = nodes.map(n => ({ x: n.tx, y: n.ty })) and
\* const velocities = nodes.map(() => ({ x: 0, y: 0 }))
SeedPositions(nodes) == [i \in 1..Len(nodes) |-> [x |-> nodes[i].tx, y |-> nodes[i].ty]]
ZeroVelocities(nodes) == [i \in 1..Len(nodes) |-> [x |-> 0, y |-> 0]]

\* nodes.forEach((n, i) => { n.tx = positions[i].x; n.ty = positions[i].y; ... })
Placed(nodes, P) ==
    [i \in 1..Len(nodes) |-> [nodes[i] EXCEPT !.tx = P[i].x, !.ty = P[i].y]]

\* What forceLayout returns, given the nodes at their final positions.
Returned(graph, placed, edges) ==
    [nodes |-> placed,
     edges |-> edges \o CrossEdges(placed, Len(graph.modules), graph.edges, 0)]

\* forceLayout from the solver loop on, `built` being the nodes and edges
\* made before it.
Solved(graph, built, W, H) ==
    CHOOSE result \in
        {Returned(graph, Placed(built.nodes, last.P), built.edges) :
             last \in {Solve(built.nodes, built.edges, SeedPositions(built.nodes),
                             ZeroVelocities(built.nodes), W, H, Iterations)}} : TRUE

\* forceLayout(graph, W, H) as one call: what callForceLayout, the
\* solverIteration steps and finishLayout do for a graph whose edges[] is
\* graph.edges.
forceLayout(graph, W, H) ==
    IF graph.absent THEN [nodes |-> <<>>, edges |-> <<>>]
    ELSE Solved(graph, AddChildren(graph.modules, 0,
                                   ModuleNodes(graph.modules, W, H), <<>>), W, H)

\* The analysis results App is taken to pass as the graph prop: two modules
\* with a member each and an import; a module and an edges[] entry naming a
\* property every object inherits; a module whose path holds the separator
\* of member ids.
GraphAB ==
    [absent |-> FALSE,
     modules |-> <<Module("a.py", <<"f">>, <<>>), Module("b.py", <<>>, <<"C">>)>>,
     edges |-> <<[source |-> "a.py", target |-> "b.py"]>>]
GraphInherited ==
    [absent |-> FALSE, modules |-> <<Module("b.py", <<>>, <<>>)>>,
     edges |-> <<[source |-> "constructor", target |-> "constructor"]>>]
GraphSeparator ==
    [absent |-> FALSE, modules |-> <<Module("p::q.py", <<"f">>, <<>>)>>, edges |-> <<>>]
MapGraphs == {GraphAB, GraphInherited, GraphSeparator}

\* forceLayout(graph, rect.width, rect.height) of every graph and size.
Layouts == [graph \in MapGraphs, size \in CanvasSizes |->
               forceLayout(graph, size[1], size[2])]

----------------------------------------------------------------------------
(* The state at mount.                                                     *)

\* No call of forceLayout is running.
NoLayout ==
    [pc |-> "idle", graph |-> [absent |-> TRUE, modules |-> <<>>], gEdges |-> <<>>,
     W |-> 0, H |-> 0, nodes |-> <<>>, edges |-> <<>>, P |-> <<>>, V |-> <<>>, iter |-> 0]

\* Numbers that need not be whole: the zoom of the Code Map and its pan.
\* A rational is kept in lowest terms with a positive denominator.
RECURSIVE Gcd(_, _)
Gcd(a, b) == IF b = 0 THEN a ELSE Gcd(b, a % b)
Abs(a) == IF a < 0 THEN 0 - a ELSE a
Rat(n, d) ==
    LET g == Gcd(Abs(n), Abs(d))
        s == IF d < 0 THEN -1 ELSE 1
    IN  [n |-> (s * n) \div g, d |-> (s * d) \div g]
Whole(k) == [n |-> k, d |-> 1]

\* useRef({ nodes: [], edges: [], particles: new Particles(), pan: { x: 0,
\* y: 0 }, zoom: 1, dragging: false, dragStart: { x: 0, y: 0 }, panStart:
\* { x: 0, y: 0 }, _mouse: { x: -999, y: -999 } }); `of` is the build that
\* made the particle system, 0 for the mount (history).
NoMap ==
    [nodes |-> <<>>, edges |-> <<>>, particles |-> [of |-> 0, list |-> {}],
     pan |-> [x |-> Whole(0), y |-> Whole(0)], zoom |-> Whole(1), dragging |-> FALSE,
     dragStart |-> [x |-> 0, y |-> 0],
     panStart |-> [x |-> Whole(0), y |-> Whole(0)],
     mouse |-> [x |-> -999, y |-> -999]]

\* null, where a record can stand
Null == [null |-> TRUE]

\* The Electron main process before app.whenReady() resolves.
NotReady ==
    [file |-> "none", pc |-> "notReady", backend |-> FALSE, frontend |-> FALSE,
     maxRetries |-> 0, attempts |-> 0, failed |-> 0, request |-> FALSE, timer |-> FALSE,
     promise |-> "none", created |-> 0]

\* What the backend holds in every file before the first save.
FirstContent == "v0"

\* A tab as handleFileSelect makes it from the content read.
Tab(path, content) ==
    [path |-> path, content |-> content, savedContent |-> content, modified |-> FALSE]

\* App with the file `path` opened in the only tab, no request in flight.
\* (The active tab is activeFile, the prop App hands to the Visualizer.)
EditorWith(path) ==
    [tabs |-> <<Tab(path, FirstContent)>>,
     disk |-> [f \in {"a.py", "b.py"} |-> FirstContent],
     reads |-> <<>>, saves |-> <<>>, saving |-> FALSE]

\* App before the terminal panel was ever shown: terminalVisible is false,
\* no Terminal component is mounted, and Terminal.sendCommand is the static
\* default of the module, `() => { }`.
NoTerminal ==
    [visible |-> FALSE, initialized |-> FALSE, initTimer |-> FALSE, importing |-> FALSE,
     ws |-> "null", sendCommand |-> "default", runs |-> <<>>, sent |-> <<>>]

\* Before the first analysis: graph is null, CodeMap draws its empty state
\* and no canvas; no frame is requested, lastT.current is null (0: both are
\* falsy), no timer is pending, the pointer is up and away from the panel.
NoCanvas ==
    [graph |-> Null, builds |-> 0, size |-> <<0, 0>>, dpr |-> 2,
     backing |-> <<0, 0>>, raf |-> FALSE,
     now |-> 0, lastT |-> 0, timers |-> {}, registered |-> 0,
     gestures |-> 0, zooms |-> 0,
     pointer |-> [x |-> 0, y |-> 0, over |-> FALSE, down |-> FALSE, travel |-> 0]]

\* An event of the CodeMap: its name, the model it belongs to, and the
\* calls of onFileSelect / onFunctionClick it made.
Event(ev, tested, calls) == [ev |-> ev, tested |-> tested, calls |-> calls]

\* The files App can have in its tabs.
Files == {"a.py", "b.py"}
NoFile == "none"

\* The rendered flag, whether the box holds a diagram and the step list, as
\* Visualize found them; NoSnapshot is their value at mount.  (The shown
\* index Visualize found is what part_004's loadFlow closes over: loadCur.)
Snapshot(r, b, st) == [rendered |-> r, svg |-> b.svg, steps |-> st]
NoSnapshot == Snapshot(FALSE, EmptyBox, <<>>)

Init ==
    /\ variant \in {V4, V5}
    /\ steps = <<>>
    /\ curStep = -1
    /\ playing = FALSE
    /\ playRef = FALSE
    /\ loading = FALSE
    /\ error = "null"
    /\ rendered = FALSE
    /\ mermaidReady = FALSE
    /\ box = EmptyBox
    /\ hovered = 0
    /\ loadPc = "idle"
    /\ loadData = NoDiagram
    /\ loadCur = -1
    /\ loops = NoLoops
    /\ lastCmd = Cmd("none", 0)
    /\ activeFile = "a.py"
    /\ flowCur = -1
    /\ loadFile = NoFile
    /\ stepsFile = NoFile
    /\ before = NoSnapshot
    /\ speed = DefaultSpeed
    /\ lay = NoLayout
    /\ cm = NoMap
    /\ env = NoCanvas
    /\ out = Event("none", FALSE, <<>>)
    /\ layouts = Layouts
    /\ term = NoTerminal
    /\ ed = EditorWith("a.py")
    /\ boot = NotReady

loadVars == <<loading, error, rendered, mermaidReady, loadPc, loadData, loadCur,
              loadFile, stepsFile, before>>

----------------------------------------------------------------------------
(* Playback.                                                               *)

PlayStartNoWrap(cur, len) == cur + 1

\* The index togglePlay hands to playLoop.
PlayStart(cur, len) == IF cur >= len - 1 THEN 0 ELSE cur + 1

LoopRunsWhateverFlag(pRef, i, len) == i < len

\* The while condition of playLoop.
LoopRuns(pRef, i, len) == pRef /\ i < len

\* togglePlay while not playing: playLoop(start), up to its first await or
\* to its end.
\* setPlaying(true) of togglePlay and setPlaying(false) of a loop that ends
\* at once are one batch; the later write wins.
Play ==
    /\ rendered
    /\ ~playing
    /\ Pending(loops) < MaxLoops
    /\ LET start == PlayStart(curStep, Len(steps))
           shown == showStep(variant, steps, box, curStep, start)
       IN  IF LoopRuns(TRUE, start, Len(steps))
           THEN /\ playRef' = TRUE
                /\ playing' = TRUE
                /\ curStep' = shown.curStep
                /\ box' = shown.box
                /\ loops' = [loops EXCEPT ![<<start + 1, FALSE>>] = @ + 1]
           ELSE /\ playRef' = FALSE
                /\ playing' = FALSE
                /\ UNCHANGED <<curStep, box, loops>>
    /\ lastCmd' = Cmd("play", curStep)
    /\ UNCHANGED <<hostVars, steps, hovered, loadVars>>

Pause ==
    /\ rendered
    /\ playing
    /\ playRef' = FALSE
    /\ playing' = FALSE
    /\ loops' = Cancelled(loops)
    /\ lastCmd' = Cmd("pause", 0)
    /\ UNCHANGED <<hostVars, steps, curStep, box, hovered, loadVars>>

togglePlay == Play \/ Pause

\* The delay of a suspended playLoop expires: the while condition is read
\* again with the loop's own i.
playLoopResume(i, stale) ==
    /\ loops[<<i, stale>>] > 0
    /\ IF LoopRuns(playRef, i, Len(steps))
       THEN LET shown == showStep(variant, steps, box, curStep, i)
            IN  /\ curStep' = shown.curStep
                /\ box' = shown.box
                /\ loops' = [loops EXCEPT ![<<i, stale>>] = @ - 1,
                                          ![<<i + 1, stale>>] = @ + 1]
                /\ UNCHANGED <<playRef, playing>>
       ELSE /\ loops' = [loops EXCEPT ![<<i, stale>>] = @ - 1]
            /\ IF i >= Len(steps)
               THEN playRef' = FALSE /\ playing' = FALSE
               ELSE UNCHANGED <<playRef, playing>>
            /\ UNCHANGED <<curStep, box>>
    /\ UNCHANGED <<hostVars, steps, hovered, loadVars, lastCmd>>

stepFwdLeavesPlayRef ==
    /\ rendered
    /\ LET shown == IF curStep + 1 < Len(steps)
                    THEN showStep(variant, steps, box, curStep, curStep + 1)
                    ELSE [curStep |-> curStep, box |-> box]
       IN  /\ curStep' = shown.curStep
           /\ box' = shown.box
    /\ playing' = FALSE
    /\ lastCmd' = Cmd("step", curStep)
    /\ UNCHANGED <<hostVars, steps, playRef, loops, hovered, loadVars>>

stepFwd ==
    /\ rendered
    /\ LET shown == IF curStep + 1 < Len(steps)
                    THEN showStep(variant, steps, box, curStep, curStep + 1)
                    ELSE [curStep |-> curStep, box |-> box]
       IN  /\ curStep' = shown.curStep
           /\ box' = shown.box
    /\ playRef' = FALSE
    /\ playing' = FALSE
    /\ loops' = Cancelled(loops)
    /\ lastCmd' = Cmd("step", curStep)
    /\ UNCHANGED <<hostVars, steps, hovered, loadVars>>

reset ==
    /\ rendered
    /\ playRef' = FALSE
    /\ playing' = FALSE
    /\ curStep' = -1
    /\ box' = resetAll(variant, box)
    /\ loops' = Cancelled(loops)
    /\ lastCmd' = Cmd("reset", 0)
    /\ UNCHANGED <<hostVars, steps, hovered, loadVars>>

----------------------------------------------------------------------------
(* Visualize: loadFlow, one action per stretch between two awaits.         *)

\* The synchronous head of loadFlow, up to `await visualizeFile(...)`.
\* The Visualize button is disabled while loading.  In part_004 loadFlow is
\* rebuilt whenever curStep changes, so it closes over the curStep of the
\* last commit; in part_005 it is not, and closes over the curStep of the
\* render that built it.
loadFlow ==
    /\ activeFile # NoFile
    /\ ~loading
    /\ loadPc = "idle"
    /\ loading' = TRUE
    /\ error' = "null"
    /\ rendered' = FALSE
    /\ curStep' = -1
    /\ playing' = FALSE
    /\ playRef' = FALSE
    /\ loops' = Cancelled(loops)
    /\ loadPc' = "fetch"
    /\ loadCur' = IF variant = V4 THEN curStep ELSE flowCur
    /\ loadFile' = activeFile
    /\ before' = Snapshot(rendered, box, steps)
    /\ lastCmd' = Cmd("visualize", 0)
    /\ UNCHANGED <<hostVars, steps, mermaidReady, box, hovered, loadData, stepsFile>>

\* catch (e) { setError(e.message) } and the setLoading(false) after it.
\* The locals of the invocation (data, the closed-over curStep) die with it.
LoadFails(msg) ==
    /\ error' = msg
    /\ loading' = FALSE
    /\ loadPc' = "idle"
    /\ loadData' = NoDiagram
    /\ loadCur' = -1
    /\ loadFile' = NoFile
    /\ before' = NoSnapshot
    /\ UNCHANGED stepsFile

\* const box = svgRef.current; if (!box) return;  The invocation ends inside
\* the try block: neither the catch nor the setLoading(false) after it runs.
LoadReturns ==
    /\ loadPc' = "idle"
    /\ loadData' = NoDiagram
    /\ loadCur' = -1
    /\ loadFile' = NoFile
    /\ before' = NoSnapshot
    /\ UNCHANGED <<loading, error, box, hovered, stepsFile>>

\* box.innerHTML = '' and the call of merm.render, up to its await.
LoadClearsBox ==
    /\ box' = EmptyBox
    /\ hovered' = 0
    /\ loadPc' = "render"
    /\ UNCHANGED <<loading, error>>

\* visualizeFile rejects.
fetchRejected ==
    /\ loadPc = "fetch"
    /\ LoadFails("request failed")
    /\ UNCHANGED <<hostVars, steps, curStep, playing, playRef, rendered, mermaidReady,
                   box, hovered, loops, lastCmd>>

\* visualizeFile resolves with `data`.  initMermaid returns without waiting
\* when the renderer is initialised or its script is already there.
fetchResolved(data, scriptThere) ==
    /\ loadPc = "fetch"
    /\ IF ~data.mermaid
       THEN /\ LoadFails("No diagram data")
            /\ UNCHANGED <<mermaidReady, box, hovered>>
       ELSE IF mermaidReady \/ scriptThere
            THEN /\ mermaidReady' = TRUE
                 /\ IF box = NoBox
                    THEN LoadReturns
                    ELSE /\ loadData' = data
                         /\ UNCHANGED <<loadCur, loadFile, stepsFile, before>>
                         /\ LoadClearsBox
            ELSE /\ loadData' = data
                 /\ loadPc' = "init"
                 /\ UNCHANGED <<loadCur, loadFile, stepsFile, before>>
                 /\ UNCHANGED <<loading, error, mermaidReady, box, hovered>>
    /\ UNCHANGED <<hostVars, steps, curStep, playing, playRef, rendered, loops, lastCmd>>

\* initMermaid ends its polling: the script arrived, or 40 polls passed.
initMermaidSettled(ok) ==
    /\ loadPc = "init"
    /\ IF ok
       THEN /\ mermaidReady' = TRUE
            /\ IF box = NoBox
               THEN LoadReturns
               ELSE /\ LoadClearsBox
                    /\ UNCHANGED <<loadData, loadCur, loadFile, stepsFile, before>>
       ELSE /\ LoadFails("Mermaid not loaded")
            /\ UNCHANGED <<mermaidReady, box, hovered>>
    /\ UNCHANGED <<hostVars, steps, curStep, playing, playRef, rendered, loops, lastCmd>>

\* merm.render resolves: the svg is put in the box and the tail of loadFlow
\* runs: setSteps(data.steps || []), setRendered(true), setLoading(false).
renderResolved ==
    /\ loadPc = "render"
    /\ box' = IF box = NoBox THEN NoBox ELSE RenderedBox(loadData, loadCur)
    /\ hovered' = 0
    /\ steps' = loadData.steps
    /\ rendered' = TRUE
    /\ loading' = FALSE
    /\ loadPc' = "idle"
    /\ loadData' = NoDiagram
    /\ loadCur' = -1
    /\ stepsFile' = loadFile
    /\ loadFile' = NoFile
    /\ before' = NoSnapshot
    /\ UNCHANGED <<hostVars, curStep, playing, playRef, error, mermaidReady, loops, lastCmd>>

renderRejected ==
    /\ loadPc = "render"
    /\ LoadFails("render failed")
    /\ UNCHANGED <<hostVars, steps, curStep, playing, playRef, rendered, mermaidReady,
                   box, hovered, loops, lastCmd>>

----------------------------------------------------------------------------
(* The listeners loadFlow puts on every diagram node.  They live as long   *)
(* as the node is in the box.  The pointer is over at most one node.       *)

\* While `rendered` is false an overlay (inset 0) is drawn over the diagram
\* container.  In part_005 the container clips its content, so the overlay
\* takes every pointer event.  In part_004 the container scrolls natively
\* and the overlay scrolls away with its content, so nodes of a scrolled
\* diagram stay under the pointer.
PointerReaches == variant = V4 \/ rendered

mouseenter(k) ==
    /\ PointerReaches
    /\ box.svg
    /\ k \in 1..Len(box.node)
    /\ hovered = 0
    /\ hovered' = k
    /\ box' = IF box.hoverCur < 0 THEN [box EXCEPT !.node[k].filter = "hover"] ELSE box
    /\ lastCmd' = Cmd("hover", 0)
    /\ UNCHANGED <<hostVars, steps, curStep, playing, playRef, loadVars, loops>>

mouseleave(k) ==
    /\ box.svg
    /\ k \in 1..Len(box.node)
    /\ hovered = k
    /\ hovered' = 0
    /\ box' = IF box.hoverCur < 0 THEN [box EXCEPT !.node[k].filter = "none"] ELSE box
    /\ lastCmd' = Cmd("hover", 0)
    /\ UNCHANGED <<hostVars, steps, curStep, playing, playRef, loadVars, loops>>

\* data.steps.findIndex(s => nid.includes(`flowchart-${s.sid}-`)), 0-based,
\* -1 for none.
FindIndex(dataSteps, nid) ==
    LET hit == {j \in 1..Len(dataSteps) : Includes(nid, Selector(dataSteps[j].sid))}
    IN  IF hit = {} THEN -1 ELSE Min(hit) - 1

click(k) ==
    /\ PointerReaches
    /\ box.svg
    /\ k \in 1..Len(box.node)
    /\ hovered = k
    /\ LET idx   == FindIndex(box.steps, box.node[k].id)
           shown == IF idx >= 0 THEN showStep(variant, steps, box, curStep, idx)
                    ELSE [curStep |-> curStep, box |-> box]
       IN  /\ curStep' = shown.curStep
           /\ box' = shown.box
    /\ lastCmd' = Cmd("click", 0)
    /\ UNCHANGED <<hostVars, steps, playing, playRef, hovered, loadVars, loops>>

----------------------------------------------------------------------------

Next ==
    \/ togglePlay
    \/ \E k \in LoopKeys : playLoopResume(k[1], k[2])
    \/ stepFwd
    \/ reset
    \/ loadFlow
    \/ fetchRejected
    \/ \E data \in Responses, scriptThere \in BOOLEAN : fetchResolved(data, scriptThere)
    \/ \E ok \in BOOLEAN : initMermaidSettled(ok)
    \/ renderResolved
    \/ renderRejected
    \/ \E k \in 1..MaxLen : mouseenter(k) \/ mouseleave(k) \/ click(k)

Spec == Init /\ [][Next]_vars

----------------------------------------------------------------------------
(* App selects another tab: the Visualizer stays mounted and is rendered   *)
(* with the new activeFile prop.  No state of the component depends on the *)
(* prop; the render rebuilds the loadFlow callback, which in part_005      *)
(* closes over the currentStep of that render.                             *)

setActiveTab(f) ==
    /\ f \in Files
    /\ f # activeFile
    /\ activeFile' = f
    /\ flowCur' = IF variant = V5 THEN curStep ELSE flowCur
    /\ lastCmd' = Cmd("file", 0)
    /\ UNCHANGED <<variant, speed, lay, mapVars, steps, curStep, playing, playRef, box,
                   hovered, loadVars, loops, appVars>>

NextFiles ==
    \/ Next
    \/ \E f \in Files : setActiveTab(f)

SpecFiles == Init /\ [][NextFiles]_vars

----------------------------------------------------------------------------
(* The speed slider of the toolbar, drawn while a diagram is rendered.     *)
(* SpecSpeed is the playback machine (a Visualize whose fetch and render   *)
(* succeed, Play, Pause and the delays) with the slider.                   *)

onSpeedChange(v) ==
    /\ rendered
    /\ v \in SliderPositions
    /\ v # SliderValue(speed)
    /\ speed' = SpeedOf(v)
    /\ lastCmd' = Cmd("speed", v)
    /\ UNCHANGED <<appVars, variant, activeFile, flowCur, lay, mapVars, steps, curStep, playing,
                   playRef, box, hovered, loadVars, loops>>

NextSpeed ==
    \/ \E v \in SliderPositions : onSpeedChange(v)
    \/ togglePlay
    \/ \E k \in LoopKeys : playLoopResume(k[1], k[2])
    \/ loadFlow
    \/ \E data \in Responses, scriptThere \in BOOLEAN : fetchResolved(data, scriptThere)
    \/ \E ok \in BOOLEAN : initMermaidSettled(ok)
    \/ renderResolved

SpecSpeed == Init /\ [][NextSpeed]_vars

----------------------------------------------------------------------------
(* showStep called directly with any index, as a caller of the function    *)
(* may: the shown index and the box are what showStep returns.             *)

ApiIdx == -1..MaxLen

callShowStep(idx) ==
    /\ LET shown == showStep(variant, steps, box, curStep, idx)
       IN  /\ curStep' = shown.curStep
           /\ box' = shown.box
    /\ lastCmd' = Cmd("showStep", idx)
    /\ UNCHANGED <<hostVars, steps, playing, playRef, hovered, loadVars, loops>>

NextApi == Next \/ \E idx \in ApiIdx : callShowStep(idx)

SpecApi == Init /\ [][NextApi]_vars

\* showStep over diagrams of up to MaxTrail steps: Visualize, its
\* completion, and calls of showStep.
MaxTrail == 3
TrailResponses == {Response(L, s) : L \in 1..MaxTrail, s \in Shapes}

NextTrail ==
    \/ loadFlow
    \/ \E data \in TrailResponses : fetchResolved(data, TRUE)
    \/ renderResolved
    \/ \E idx \in -1..MaxTrail : callShowStep(idx)

SpecTrail == Init /\ [][NextTrail]_vars

\* App's rightTab leaves 'visualize': Visualizer is unmounted and React sets
\* the ref of the diagram container to null.  The component has no effect
\* cleanup, so a running loadFlow goes on.
unmount ==
    /\ box # NoBox
    /\ box' = NoBox
    /\ hovered' = 0
    /\ lastCmd' = Cmd("unmount", 0)
    /\ UNCHANGED <<hostVars, steps, curStep, playing, playRef, loops, loadVars>>

\* One await of a running loadFlow settles.
LoadSettles ==
    \/ fetchRejected
    \/ \E data \in Responses, scriptThere \in BOOLEAN : fetchResolved(data, scriptThere)
    \/ \E ok \in BOOLEAN : initMermaidSettled(ok)
    \/ renderResolved
    \/ renderRejected

\* Visualize and the panel switch.  The Visualize button exists only while
\* the component is mounted.
NextLoad ==
    \/ box # NoBox /\ loadFlow
    \/ LoadSettles
    \/ unmount
    \/ \E idx \in ApiIdx : box # NoBox /\ callShowStep(idx)

SpecLoad == Init /\ [][NextLoad]_vars

\* Every promise loadFlow awaits settles: the request to the backend ends
\* with a response or an error, initMermaid gives up after 40 polls, and
\* merm.render resolves or rejects.
SpecLoadFair == SpecLoad /\ WF_vars(LoadSettles)

----------------------------------------------------------------------------
(* The terminal panel: App's terminalVisible and Run, and the Terminal     *)
(* component, which App renders only while terminalVisible is true.        *)

MaxRuns == 2

\* Everything but the terminal.
notTerm ==
    <<variant, steps, curStep, playing, playRef, box, hovered, loops, lastCmd, loadVars,
      activeFile, flowCur, speed, lay, mapVars, ed, boot>>

\* typeof Terminal.sendCommand === 'function': the static default is a
\* function as well.
IsFunction(f) == f \in {"default", "installed"}

\* The commit that mounts Terminal with visible = true, and its effects: the
\* 100 ms timer of initTerminal, and the effect that installs sendCommand
\* unless Terminal.sendCommand is a function already.
mountTerminal(t) ==
    [t EXCEPT !.visible = TRUE,
              !.initTimer = TRUE,
              !.sendCommand = IF IsFunction(t.sendCommand) THEN t.sendCommand ELSE "installed"]

\* The terminal button of the toolbar, and the close button of the panel:
\* setTerminalVisible(!terminalVisible).  Hiding unmounts Terminal: the
\* timer effect's cleanup clears the timer, the refs of the instance are
\* gone, and a running initTerminal finds termRef.current null.
toggleTerminal ==
    /\ term' = IF term.visible
               THEN [term EXCEPT !.visible = FALSE, !.initialized = FALSE,
                                 !.initTimer = FALSE, !.importing = FALSE, !.ws = "null"]
               ELSE mountTerminal(term)
    /\ UNCHANGED notTerm

\* The 100 ms timer: initTerminal up to its first await.
initTerminal ==
    /\ term.initTimer
    /\ term' = [term EXCEPT !.initTimer = FALSE,
                            !.initialized = TRUE,
                            !.importing = ~term.initialized]
    /\ UNCHANGED notTerm

\* The imports resolve: the xterm is opened and the WebSocket is created.
importsResolved ==
    /\ term.importing
    /\ term' = [term EXCEPT !.importing = FALSE, !.ws = "connecting"]
    /\ UNCHANGED notTerm

\* The WebSocket opens, or fails and closes.
wsSettles(open) ==
    /\ term.ws = "connecting"
    /\ term' = [term EXCEPT !.ws = IF open THEN "open" ELSE "closed"]
    /\ UNCHANGED notTerm

\* The backend closes an open socket.
wsCloses ==
    /\ term.ws = "open"
    /\ term' = [term EXCEPT !.ws = "closed"]
    /\ UNCHANGED notTerm

\* handleRun: shows the terminal and arms the 300 ms timer that sends
\* `python ${activeTab}`.
handleRun ==
    /\ activeFile # NoFile
    /\ Len(term.runs) < MaxRuns
    /\ term' = [(IF term.visible THEN term ELSE mountTerminal(term))
                   EXCEPT !.runs = Append(@, "python " \o activeFile)]
    /\ UNCHANGED notTerm

\* Terminal.sendCommand(cmd), as installed by the effect of Terminal:
\* ws.send(cmd + '\r') if the socket of wsRef is open.  The static default
\* does nothing.
sendCommand(t, cmd) ==
    IF t.sendCommand = "installed" /\ t.ws = "open"
    THEN [t EXCEPT !.sent = Append(@, cmd \o "\r")]
    ELSE t

\* The 300 ms timer of handleRun fires.
runTimerFires ==
    /\ term.runs # <<>>
    /\ term' = [sendCommand(term, Head(term.runs)) EXCEPT !.runs = Tail(@)]
    /\ UNCHANGED notTerm

NextTerm ==
    \/ toggleTerminal
    \/ initTerminal
    \/ importsResolved
    \/ \E open \in BOOLEAN : wsSettles(open)
    \/ wsCloses
    \/ handleRun
    \/ runTimerFires
    \/ \E f \in Files : setActiveTab(f)

SpecTerm == Init /\ [][NextTerm]_vars

----------------------------------------------------------------------------
(* The editor tabs of App.  A handler sees the state of the last render;   *)
(* the updater functions given to setTabs see the state they are applied   *)
(* to.                                                                     *)

MaxTabs == 3
MaxReads == 2
MaxSaves == 1
Contents == {"v0", "v1"}

\* Everything but the editor and the active tab.
notEd ==
    <<variant, steps, curStep, playing, playRef, box, hovered, loops, lastCmd, loadVars,
      speed, lay, mapVars, term, boot>>

\* setActiveTab(path): the Visualizer gets a new activeFile prop.
ActiveBecomes(path) ==
    /\ activeFile' = path
    /\ flowCur' = IF variant = V5 /\ path # activeFile THEN curStep ELSE flowCur

\* tabs.find(t => t.path === path): its index, 0 for undefined.
FindTab(tabs, path) ==
    IF \E i \in 1..Len(tabs) : tabs[i].path = path
    THEN CHOOSE i \in 1..Len(tabs) :
             /\ tabs[i].path = path
             /\ \A j \in 1..(i - 1) : tabs[j].path # path
    ELSE 0

\* seq without its element i.
Without(seq, i) == SubSeq(seq, 1, i - 1) \o SubSeq(seq, i + 1, Len(seq))

\* prev.filter(t => t.path !== path)
RECURSIVE FilterPath(_, _)
FilterPath(tabs, path) ==
    IF tabs = <<>> THEN <<>>
    ELSE IF Head(tabs).path = path THEN FilterPath(Tail(tabs), path)
    ELSE <<Head(tabs)>> \o FilterPath(Tail(tabs), path)

\* handleFileSelect(filePath) up to its return or its await of readFile.
handleFileSelect(filePath) ==
    IF FindTab(ed.tabs, filePath) # 0
    THEN /\ filePath # activeFile
         /\ ActiveBecomes(filePath)
         /\ UNCHANGED <<ed, notEd>>
    ELSE /\ Len(ed.reads) < MaxReads
         /\ Len(ed.tabs) + Len(ed.reads) < MaxTabs
         /\ ed' = [ed EXCEPT !.reads = Append(@, filePath)]
         /\ UNCHANGED <<activeFile, flowCur, notEd>>

\* readFile resolves with the content the backend holds.
readResolved(i) ==
    /\ i \in 1..Len(ed.reads)
    /\ ed' = [ed EXCEPT !.tabs = Append(@, Tab(ed.reads[i], ed.disk[ed.reads[i]])),
                        !.reads = Without(@, i)]
    /\ ActiveBecomes(ed.reads[i])
    /\ UNCHANGED notEd

\* readFile rejects: the error is logged.
readRejected(i) ==
    /\ i \in 1..Len(ed.reads)
    /\ ed' = [ed EXCEPT !.reads = Without(@, i)]
    /\ UNCHANGED <<activeFile, flowCur, notEd>>

\* A click on a tab: onTabSelect is setActiveTab.
onTabSelect(i) ==
    /\ i \in 1..Len(ed.tabs)
    /\ ed.tabs[i].path # activeFile
    /\ ActiveBecomes(ed.tabs[i].path)
    /\ UNCHANGED <<ed, notEd>>

\* handleTabClose(path); `confirmed` is the answer to the confirm dialog.
handleTabClose(i, confirmed) ==
    /\ i \in 1..Len(ed.tabs)
    /\ LET path == ed.tabs[i].path
           tab == ed.tabs[FindTab(ed.tabs, path)]
           next == FilterPath(ed.tabs, path)
       IN  /\ tab.modified => confirmed
           /\ ed' = [ed EXCEPT !.tabs = next]
           /\ IF activeFile = path
              THEN ActiveBecomes(IF next # <<>> THEN next[Len(next)].path ELSE NoFile)
              ELSE UNCHANGED <<activeFile, flowCur>>
    /\ UNCHANGED notEd

\* The editor, which shows the first tab with the active path, reports a
\* change: handleContentChange(activeTab, newContent).
handleContentChange(newContent) ==
    /\ FindTab(ed.tabs, activeFile) # 0
    /\ newContent # ed.tabs[FindTab(ed.tabs, activeFile)].content
    /\ ed' = [ed EXCEPT !.tabs =
                  [k \in 1..Len(ed.tabs) |->
                      IF ed.tabs[k].path = activeFile
                      THEN [ed.tabs[k] EXCEPT !.content = newContent,
                                              !.modified = newContent # ed.tabs[k].savedContent]
                      ELSE ed.tabs[k]]]
    /\ UNCHANGED <<activeFile, flowCur, notEd>>

\* handleSave up to its await of saveFile(activeTab, tab.content).
handleSave ==
    /\ activeFile # NoFile
    /\ FindTab(ed.tabs, activeFile) # 0
    /\ Len(ed.saves) < MaxSaves
    /\ ed' = [ed EXCEPT !.saving = TRUE,
                        !.saves = Append(@, [path |-> activeFile,
                                             content |-> ed.tabs[FindTab(ed.tabs, activeFile)].content])]
    /\ UNCHANGED <<activeFile, flowCur, notEd>>

\* saveFile resolves: the backend has written the content it was sent, and
\* the rest of handleSave runs.
saveResolved ==
    /\ ed.saves # <<>>
    /\ LET save == Head(ed.saves)
       IN  ed' = [ed EXCEPT
                     !.disk[save.path] = save.content,
                     !.tabs = [k \in 1..Len(ed.tabs) |->
                                  IF ed.tabs[k].path = save.path
                                  THEN [ed.tabs[k] EXCEPT !.savedContent = ed.tabs[k].content,
                                                          !.modified = FALSE]
                                  ELSE ed.tabs[k]],
                     !.saves = Tail(@),
                     !.saving = FALSE]
    /\ UNCHANGED <<activeFile, flowCur, notEd>>

\* saveFile rejects: nothing was written.
saveRejected ==
    /\ ed.saves # <<>>
    /\ ed' = [ed EXCEPT !.saves = Tail(@), !.saving = FALSE]
    /\ UNCHANGED <<activeFile, flowCur, notEd>>

NextTabs ==
    \/ \E filePath \in Files : handleFileSelect(filePath)
    \/ \E i \in 1..MaxReads : readResolved(i)
    \/ \E i \in 1..MaxReads : readRejected(i)
    \/ \E i \in 1..MaxTabs : onTabSelect(i)
    \/ \E i \in 1..MaxTabs, confirmed \in BOOLEAN : handleTabClose(i, confirmed)
    \/ \E newContent \in Contents : handleContentChange(newContent)
    \/ handleSave
    \/ saveResolved
    \/ saveRejected

SpecTabs == Init /\ [][NextTabs]_vars

----------------------------------------------------------------------------
(* The Electron main process: app.whenReady().then(...) and waitForServer. *)

\* The retry counts tried in place of the 30 of the call
\* waitForServer(DEV_URL, 30, 1000).
MaxRetries == 4
BootFiles == {"main.js", "part_009"}

\* Everything but the main process.
notBoot ==
    <<variant, steps, curStep, playing, playRef, box, hovered, loops, lastCmd, loadVars,
      activeFile, flowCur, speed, lay, mapVars, term, ed>>

\* waitForServer(url, maxRetries, interval): the executor of the promise
\* calls check() at once, which counts the attempt and sends the request.
waitForServer(b, maxRetries) ==
    [b EXCEPT !.pc = "waiting", !.maxRetries = maxRetries, !.attempts = 1,
              !.request = TRUE, !.promise = "pending"]

\* app.whenReady() resolves.  main.js starts both servers and waits;
\* part_009 first asks isServerUp for the backend.
whenReady(file, maxRetries) ==
    /\ boot.pc = "notReady"
    /\ boot' = IF file = "main.js"
               THEN waitForServer([boot EXCEPT !.file = file, !.backend = TRUE,
                                               !.frontend = TRUE], maxRetries)
               ELSE [boot EXCEPT !.file = file, !.pc = "backendUp",
                                 !.maxRetries = maxRetries]
    /\ UNCHANGED notBoot

\* part_009: isServerUp resolves with `up`; a server that is not up is
\* started.  After the second answer the handler calls waitForServer.
isServerUpResolved(up) ==
    /\ boot.pc \in {"backendUp", "frontendUp"}
    /\ boot' = IF boot.pc = "backendUp"
               THEN [boot EXCEPT !.pc = "frontendUp", !.backend = ~up]
               ELSE waitForServer([boot EXCEPT !.frontend = ~up], boot.maxRetries)
    /\ UNCHANGED notBoot

\* http.get calls back with a response: resolve().
attemptResponds ==
    /\ boot.request
    /\ boot' = [boot EXCEPT !.request = FALSE,
                            !.promise = IF @ = "pending" THEN "resolved" ELSE @]
    /\ UNCHANGED notBoot

\* attemptFails with `attempts > maxRetries` for its test: one attempt more
\* before it gives up.
attemptFailsLate ==
    /\ boot.request
    /\ boot' = IF boot.attempts > boot.maxRetries
               THEN [boot EXCEPT !.request = FALSE, !.failed = @ + 1,
                                 !.promise = IF @ = "pending" THEN "rejected" ELSE @]
               ELSE [boot EXCEPT !.request = FALSE, !.failed = @ + 1, !.timer = TRUE]
    /\ UNCHANGED notBoot

\* The request emits 'error': reject if attempts >= maxRetries, else
\* setTimeout(check, interval).
attemptFails ==
    /\ boot.request
    /\ boot' = IF boot.attempts >= boot.maxRetries
               THEN [boot EXCEPT !.request = FALSE, !.failed = @ + 1,
                                 !.promise = IF @ = "pending" THEN "rejected" ELSE @]
               ELSE [boot EXCEPT !.request = FALSE, !.failed = @ + 1, !.timer = TRUE]
    /\ UNCHANGED notBoot

\* The retry timer fires: check().
check ==
    /\ boot.timer
    /\ boot' = [boot EXCEPT !.timer = FALSE, !.attempts = @ + 1, !.request = TRUE]
    /\ UNCHANGED notBoot

\* The handler resumes after `await waitForServer(...)`, in the try block or
\* in the catch block, and calls createWindow().
createWindow ==
    /\ boot.pc = "waiting"
    /\ boot.promise \in {"resolved", "rejected"}
    /\ boot' = [boot EXCEPT !.pc = "done", !.created = @ + 1]
    /\ UNCHANGED notBoot

NextBoot ==
    \/ \E file \in BootFiles, maxRetries \in 1..MaxRetries : whenReady(file, maxRetries)
    \/ \E up \in BOOLEAN : isServerUpResolved(up)
    \/ attemptResponds
    \/ attemptFails
    \/ check
    \/ createWindow

SpecBoot == Init /\ [][NextBoot]_vars

\* Electron makes the app ready, every request ends with a response or an
\* error, a timer that was set fires, and a handler whose awaited promise
\* has settled is resumed.
SpecBootFair == SpecBoot /\ WF_vars(NextBoot)


----------------------------------------------------------------------------
(* forceLayout of the Code Map, step by step.                              *)

\* Everything of the Visualizer, which forceLayout does not touch.
visualizerVars ==
    <<variant, steps, curStep, playing, playRef, loading, error, rendered,
      mermaidReady, box, hovered, loadPc, loadData, loadCur, loops, lastCmd,
      activeFile, flowCur, loadFile, stepsFile, before, speed, appVars>>

\* forceLayout(graph, W, H) up to the solver loop: `if (!graph?.modules)
\* return`, the module nodes, the child nodes and their edges, the start
\* positions and zero velocities.
callForceLayout(graph, size) ==
    /\ lay.pc = "idle"
    /\ IF graph.absent
       THEN lay' = [NoLayout EXCEPT !.pc = "done", !.graph = graph,
                                    !.W = size[1], !.H = size[2]]
       ELSE LET built == AddChildren(graph.modules, 0,
                                     ModuleNodes(graph.modules, size[1], size[2]), <<>>)
            IN  lay' = [pc |-> "solve", graph |-> graph, gEdges |-> <<>>,
                        W |-> size[1], H |-> size[2],
                        nodes |-> built.nodes, edges |-> built.edges,
                        P |-> [i \in 1..Len(built.nodes) |->
                                  [x |-> built.nodes[i].tx, y |-> built.nodes[i].ty]],
                        V |-> [i \in 1..Len(built.nodes) |-> [x |-> 0, y |-> 0]],
                        iter |-> 0]
    /\ UNCHANGED <<visualizerVars, mapVars>>

\* One pass of the body of the solver loop.
solverIteration ==
    /\ lay.pc = "solve"
    /\ lay.iter < Iterations
    /\ LET next == Iterate(lay.nodes, lay.edges, lay.P, lay.V, lay.W, lay.H)
       IN  lay' = [lay EXCEPT !.P = next.P, !.V = next.V, !.iter = lay.iter + 1]
    /\ UNCHANGED <<visualizerVars, mapVars>>

\* After the loop: the final positions are written to the nodes, the
\* entries of graph.edges become edges, forceLayout returns.
finishLayout(gEdges) ==
    /\ lay.pc = "solve"
    /\ lay.iter = Iterations
    /\ LET placed == [i \in 1..Len(lay.nodes) |->
                        [lay.nodes[i] EXCEPT !.tx = lay.P[i].x, !.ty = lay.P[i].y]]
       IN  lay' = [lay EXCEPT !.pc = "done", !.gEdges = gEdges, !.nodes = placed,
                              !.edges = lay.edges \o
                                  CrossEdges(placed, Len(lay.graph.modules), gEdges, 0)]
    /\ UNCHANGED <<visualizerVars, mapVars>>

\* The caller took the result; forceLayout can be called again.
layoutReturned ==
    /\ lay.pc = "done"
    /\ lay' = NoLayout
    /\ UNCHANGED <<visualizerVars, mapVars>>

NextLayout ==
    \/ \E graph \in Graphs, size \in CanvasSizes : callForceLayout(graph, size)
    \/ solverIteration
    \/ \E gEdges \in EdgeLists : finishLayout(gEdges)
    \/ layoutReturned

SpecLayout == Init /\ [][NextLayout]_vars

----------------------------------------------------------------------------
(* The CodeMap component, src/unnamed/part_007 lines 269-420: the build    *)
(* effect with its start timers, the render loop and the pointer handlers. *)
(*                                                                         *)
(* Times are in ms.  The clock advances in steps of TimeUnit; a timer is   *)
(* run when its time has come or later, timers in the order of their due   *)
(* times and, among equal ones, of their registration.  Pointer positions  *)
(* are whole px, positions of nodes 1/1000 px, pan and zoom rationals.     *)

\* Most analysis results one mounted CodeMap is given.
MaxBuilds == 2
\* The clock stops after MaxClock steps of TimeUnit ms.
MaxClock == 13
TimeUnit == 50
\* The event loop runs a timer less than MaxLate + 1 clock steps after its
\* time has come, and the display requests a frame in every MaxFrameGap
\* clock steps.
MaxLate == 0
MaxFrameGap == 1

\* window.devicePixelRatio || 1
PixelRatios == {2}

RSub(a, b) ==
    LET g == Gcd(a.d, b.d)
    IN  Rat(a.n * (b.d \div g) - b.n * (a.d \div g), (a.d \div g) * b.d)
RMul(a, b) ==
    LET g1 == Gcd(Abs(a.n), b.d)
        g2 == Gcd(Abs(b.n), a.d)
    IN  IF a.n = 0 \/ b.n = 0 THEN Whole(0)
        ELSE Rat((a.n \div g1) * (b.n \div g2), (a.d \div g2) * (b.d \div g1))
RDiv(a, b) == RMul(a, IF b.n < 0 THEN [n |-> 0 - b.d, d |-> 0 - b.n]
                                 ELSE [n |-> b.d, d |-> b.n])
RLess(a, b) == RSub(a, b).n < 0
\* a rational in 1/1000, rounded down
Milli(q) == (q.n \div q.d) * 1000 + ((q.n % q.d) * 1000) \div q.d

\* (c - pan) / zoom: the canvas coordinate c in model space, in 1/1000 px
World(c, pan, zoom) == Milli(RDiv(RSub(Whole(c), pan), zoom))

\* ease.outCubic, ease.outBack and ease.outElastic of p / 1000, times 1000.
outCubic(p) ==
    LET q == 1000 - p IN 1000 - (((q * q) \div 1000) * q) \div 1000
outBack(p) ==
    LET q  == p - 1000
        q2 == (q * q) \div 1000
        q3 == (q2 * q) \div 1000
    IN  1000 + (3702 * q3) \div 1000 + (2702 * q2) \div 1000
\* Math.pow(2, -x / 1000), times 1000: the whole part of the exponent by
\* halving, the rest by the series of exp(-f ln 2).
RECURSIVE Halve(_, _)
Halve(v, k) == IF k = 0 THEN v ELSE Halve(v \div 2, k - 1)
Pow2Neg(x) ==
    LET f  == x % 1000
        f2 == (f * f) \div 1000
        f3 == (f2 * f) \div 1000
    IN  Halve(1000 - (693 * f) \div 1000 + (240 * f2) \div 1000 - (56 * f3) \div 1000,
              x \div 1000)
\* Math.sin of k / 300 of a turn, times 1000 (Bhaskara's formula, which is
\* within 2 / 1000 of the sine).
SinTurn(k) ==
    LET h == k % 300
        a == IF h < 150 THEN h ELSE h - 150
        u == a * (150 - a)
        s == (4000 * u) \div (28125 - u)
    IN  IF h < 150 THEN s ELSE 0 - s
outElastic(p) ==
    IF p = 0 \/ p = 1000 THEN p
    ELSE (Pow2Neg(10 * p) * SinTurn(p - 75 + 300)) \div 1000 + 1000

\* A GNode as the constructor and `n.x = n.tx; n.y = n.ty - 50` leave it.
\* `model` is the build that made the object and `starts` counts the calls
\* of start(): both are history, the code has neither.
EnteringNode(n, model) ==
    [id |-> n.id, type |-> n.type, tx |-> n.tx, ty |-> n.ty, r |-> n.r,
     delay |-> n.delay, x |-> n.tx, y |-> n.ty - 50000, cr |-> 0, t |-> 0,
     visible |-> FALSE, hover |-> FALSE, model |-> model, starts |-> 0]

\* A GEdge as the constructor leaves it.
EnteringEdge(e, model) ==
    [src |-> e.src, tgt |-> e.tgt, label |-> e.label, delay |-> e.delay, t |-> 0,
     visible |-> FALSE, progress |-> 0, model |-> model, starts |-> 0]

\* GNode.start and GEdge.start
start(o) == [o EXCEPT !.visible = TRUE, !.t = 0, !.starts = @ + 1]

\* p = Math.min(1, this.t / this.dur) of a node, in 1/1000
NodeProgress(t) == Min2(1000, (t * 1000) \div 600)

\* GNode.update(dt, mx, my)
updateNode(n, dt, mx, my) ==
    IF ~n.visible THEN n
    ELSE LET t  == n.t + dt
             p  == NodeProgress(t)
             y  == n.ty - 50000 + 50 * outBack(p)
             cr == n.r * outElastic(p)
             dx == Px(mx - n.tx)
             dy == Px(my - y)
         IN  [n EXCEPT !.t = t, !.y = y, !.x = n.tx, !.cr = cr,
                       !.hover = dx * dx + dy * dy <= (Px(cr) + 6) * (Px(cr) + 6)]

\* GEdge.update(dt)
updateEdge(e, dt) ==
    IF ~e.visible THEN e
    ELSE LET t == e.t + dt
         IN  [e EXCEPT !.t = t,
                       !.progress = Min2(1000, outCubic(Min2(1000, (t * 1000) \div 500)))]

\* GEdge.draw goes past its first line:  if (!this.visible ||
\* this.progress < 0.01) return;
Drawn(e) == e.visible /\ e.progress >= 10

\* The particle system is the set of the bursts in it: a burst is the
\* particles that the nodes and edges of one build (`model`, history) have
\* emitted, `life` the longest one of them can still live: l + 0.2 s at
\* the call of emit.
emit(list, model, l) ==
    {b \in list : b.model # model \/ b.life > l + 200} \cup
    (IF \E b \in list : b.model = model /\ b.life > l + 200 THEN {}
     ELSE {[model |-> model, life |-> l + 200]})

\* Particles.update(dt): the dead are dropped, the others age
updateParticles(list, dt) ==
    {[b EXCEPT !.life = Max2(0, @ - dt)] : b \in {c \in list : c.life > 0}}

\* A pending timer of the build effect: setTimeout(..., delay) registered
\* as the `seq`-th timer, for node or edge `idx` of build `model`.
Timer(due, seq, model, kind, idx) ==
    [due |-> due, seq |-> seq, model |-> model, kind |-> kind, idx |-> idx]

\* The timer the event loop runs next.
NextTimer(timers) ==
    CHOOSE tm \in timers :
        \A other \in timers :
            tm.due < other.due \/ (tm.due = other.due /\ tm.seq <= other.seq)

AfterFiringKeeps(timers, tm) == timers

\* setTimeout runs its callback once
AfterFiring(timers, tm) == timers \ {tm}

\* canvas.width = r.width * d; canvas.height = r.height * d
Backing(size, d) == <<size[1] * d, size[2] * d>>

\* nodes.forEach(n => setTimeout(..., n.delay * 1000)) and then
\* edges.forEach(e => setTimeout(..., e.delay * 1000 + 300)), at time `now`
\* and after `registered` earlier timers.
StartTimers(built, m, now, registered) ==
    {Timer(now + built.nodes[i].delay, registered + i, m, "node", i) :
         i \in 1..Len(built.nodes)} \cup
    {Timer(now + built.edges[k].delay + 300, registered + Len(built.nodes) + k,
           m, "edge", k) : k \in 1..Len(built.edges)}

mountGraphKeepsEdges(graph, size, built, m) ==
    /\ cm' = [cm EXCEPT
                !.nodes = [i \in 1..Len(built.nodes) |-> EnteringNode(built.nodes[i], m)],
                !.edges = IF @ = <<>>
                          THEN [k \in 1..Len(built.edges) |->
                                    EnteringEdge(built.edges[k], m)]
                          ELSE @,
                !.particles = [of |-> m, list |-> {}],
                !.pan = [x |-> Whole(0), y |-> Whole(0)],
                !.zoom = Whole(1)]
    /\ env' = [env EXCEPT
                 !.graph = graph, !.builds = m, !.size = size,
                 !.backing = Backing(size, env.dpr), !.raf = TRUE,
                 !.registered = @ + Len(built.nodes) + Len(built.edges),
                 !.timers = @ \cup StartTimers(built, m, env.now, env.registered)]

\* The build effect and the render loop effect, `built` being what
\* forceLayout returned and `m` the number of the build.
mountGraph(graph, size, built, m) ==
    /\ cm' = [cm EXCEPT
                !.nodes = [i \in 1..Len(built.nodes) |-> EnteringNode(built.nodes[i], m)],
                !.edges = [k \in 1..Len(built.edges) |-> EnteringEdge(built.edges[k], m)],
                !.particles = [of |-> m, list |-> {}],
                !.pan = [x |-> Whole(0), y |-> Whole(0)],
                !.zoom = Whole(1)]
    /\ env' = [env EXCEPT
                 !.graph = graph, !.builds = m, !.size = size,
                 !.backing = Backing(size, env.dpr), !.raf = TRUE,
                 !.registered = @ + Len(built.nodes) + Len(built.edges),
                 !.timers = @ \cup StartTimers(built, m, env.now, env.registered)]

\* The graph prop changes to a new analysis result: React commits, the
\* cleanup of the render loop cancels the frame request, the build effect
\* lays the graph out, swaps the arrays, resets the view and registers the
\* start timers, the render loop effect sizes the canvas and requests a
\* frame.  `size` is what getBoundingClientRect gives: the size of the
\* canvas, which the first graph mounts.
setGraph(graph, size) ==
    /\ env.builds < MaxBuilds
    /\ env.graph # Null => size = env.size
    /\ mountGraph(graph, size, layouts[graph, size], env.builds + 1)
    /\ UNCHANGED <<visualizerVars, lay, layouts, out>>

\* The object a timer closed over is in state.current.
Live(list, tm) == tm.idx \in 1..Len(list) /\ list[tm.idx].model = tm.model

\* A start timer runs:  () => { n.start(); s.particles.emit(n.tx, n.ty,
\* n.color, 5, 2.5, 0.4, 2.5); }  or  () => e.start().  The node or edge
\* is the one the timer closed over, the particle system the one
\* state.current holds now.
fireTimer ==
    /\ env.timers # {}
    /\ LET tm == NextTimer(env.timers)
       IN  /\ tm.due <= env.now
           /\ cm' = IF tm.kind = "node"
                    THEN [cm EXCEPT
                            !.nodes = IF Live(cm.nodes, tm)
                                      THEN [@ EXCEPT ![tm.idx] = start(@)] ELSE @,
                            !.particles.list = emit(@, tm.model, 400)]
                    ELSE [cm EXCEPT
                            !.edges = IF Live(cm.edges, tm)
                                      THEN [@ EXCEPT ![tm.idx] = start(@)] ELSE @]
           /\ env' = [env EXCEPT !.timers = AfterFiring(@, tm)]
    /\ UNCHANGED <<visualizerVars, lay, layouts, out>>

\* Time passes.
timePasses ==
    /\ env.now < MaxClock * TimeUnit
    /\ \A tm \in env.timers : env.now < tm.due + MaxLate * TimeUnit
    /\ env.raf => env.now - env.lastT < MaxFrameGap * TimeUnit
    /\ env' = [env EXCEPT !.now = @ + TimeUnit]
    /\ UNCHANGED <<visualizerVars, lay, layouts, cm, out>>

\* tick(ts): one frame of the render loop.  `spark` is the outcome of
\* Math.random() < 0.2 in GEdge.draw for the edges whose tip is under way,
\* TRUE when it came out true for one of them.
tick(spark) ==
    /\ env.raf
    /\ env.now > env.lastT
    /\ LET dt    == IF env.lastT # 0 THEN Min2(env.now - env.lastT, 50) ELSE 16
           wmx   == World(cm.mouse.x, cm.pan.x, cm.zoom)
           wmy   == World(cm.mouse.y, cm.pan.y, cm.zoom)
           nodes == [i \in 1..Len(cm.nodes) |-> updateNode(cm.nodes[i], dt, wmx, wmy)]
           edges == [k \in 1..Len(cm.edges) |-> updateEdge(cm.edges[k], dt)]
           list  == updateParticles(cm.particles.list, dt)
           tips  == {k \in 1..Len(edges) :
                       Drawn(edges[k]) /\ edges[k].progress > 100
                                       /\ edges[k].progress < 900}
       IN  /\ spark => tips # {}
           /\ cm' = [cm EXCEPT
                       !.nodes = nodes, !.edges = edges,
                       !.particles.list =
                           IF spark
                           THEN emit(list, edges[CHOOSE k \in tips : TRUE].model, 300)
                           ELSE list]
           /\ env' = [env EXCEPT !.lastT = env.now]
    /\ UNCHANGED <<visualizerVars, lay, layouts, out>>

resizeLaysOut(size, d) ==
    /\ env.raf
    /\ <<size, d>> # <<env.size, env.dpr>>
    /\ env' = [env EXCEPT !.size = size, !.dpr = d, !.backing = Backing(size, d)]
    /\ cm' = [cm EXCEPT
                !.nodes = [i \in 1..Len(@) |->
                              [@[i] EXCEPT !.tx = layouts[env.graph, size].nodes[i].tx,
                                           !.ty = layouts[env.graph, size].nodes[i].ty]]]
    /\ UNCHANGED <<visualizerVars, lay, layouts, out>>

\* The ResizeObserver of the canvas calls resize.
resize(size, d) ==
    /\ env.raf
    /\ <<size, d>> # <<env.size, env.dpr>>
    /\ env' = [env EXCEPT !.size = size, !.dpr = d, !.backing = Backing(size, d)]
    /\ UNCHANGED <<visualizerVars, lay, layouts, cm, out>>

\* The animation of two analysis results on a canvas that is mounted at
\* 300 x 200 px.
NextMap ==
    \/ \E graph \in {GraphAB, GraphInherited} : setGraph(graph, <<300, 200>>)
    \/ fireTimer
    \/ timePasses
    \/ \E spark \in BOOLEAN : tick(spark)
    \/ \E size \in CanvasSizes \ {<<0, 0>>}, d \in PixelRatios : resize(size, d)

SpecMap == Init /\ [][NextMap]_vars

----------------------------------------------------------------------------
(* The pointer, the wheel and the toolbar of the Code Map.                 *)

\* The gestures and the zoom operations of a run.
MaxGestures == 1
MaxZooms == 6
\* The pointer is followed over the first MaxPointerClock steps of the clock.
MaxPointerClock == 4
\* and over MaxPointerZooms presses of a zoom button.
MaxPointerZooms == 1

\* canvas.getBoundingClientRect(): the canvas lies under the toolbar, at the
\* left edge of its panel; e.clientX and e.clientY are window coordinates.
Rect == [left |-> 0, top |-> 30]
OnCanvas(p, size) ==
    /\ p.x >= Rect.left /\ p.x < Rect.left + size[1]
    /\ p.y >= Rect.top /\ p.y < Rect.top + size[2]

\* Where the pointer is taken to be: on the first node of a 300 x 200
\* layout, 50 px above the second module (where that one waits for its
\* start), and on the toolbar.
Points == {[x |-> 150, y |-> 70], [x |-> 150, y |-> 140], [x |-> 150, y |-> 10]}

RAdd(a, b) == RSub(a, [n |-> 0 - b.n, d |-> b.d])
RMin(a, b) == IF RLess(a, b) THEN a ELSE b
RMax(a, b) == IF RLess(a, b) THEN b ELSE a

\* The strings that hold no "::", and what can follow the first "::" of an id.
Atoms == {"a.py", "b.py", "p", "q.py", "f", "C"}
Tails == Atoms \cup {a \o "::" \o b : a, b \in Atoms}
\* id.includes(sep) and id.split(sep)[0]
includes(id, sep) == \E a \in Atoms, t \in Tails : id = a \o sep \o t
split0(id, sep) ==
    IF includes(id, sep)
    THEN CHOOSE a \in Atoms : \E t \in Tails : id = a \o sep \o t
    ELSE id

\* onMove
onMove(s, e) ==
    [s EXCEPT !.mouse = [x |-> e.x - Rect.left, y |-> e.y - Rect.top],
              !.pan = IF s.dragging
                      THEN [x |-> RAdd(s.panStart.x, Whole(e.x - s.dragStart.x)),
                            y |-> RAdd(s.panStart.y, Whole(e.y - s.dragStart.y))]
                      ELSE @]

\* onDown
onDown(s, e) ==
    [s EXCEPT !.dragging = TRUE, !.dragStart = [x |-> e.x, y |-> e.y],
              !.panStart = s.pan]

\* Math.abs(e.clientX - s.dragStart.x) + Math.abs(e.clientY - s.dragStart.y)
moved(s, e) == Abs(e.x - s.dragStart.x) + Abs(e.y - s.dragStart.y)

\* (wx - n.x) ** 2 + (wy - n.y) ** 2 <= (n.cr + 5) ** 2, after
\* if (!n.visible) continue
Hit(n, wx, wy) ==
    /\ n.visible
    /\ Px(wx - n.x) * Px(wx - n.x) + Px(wy - n.y) * Px(wy - n.y)
           <= (Px(n.cr) + 5) * (Px(n.cr) + 5)

\* The node the loop of onUp breaks at: 0 when it runs to its end.
FirstHit(nodes, wx, wy) ==
    IF \E i \in 1..Len(nodes) : Hit(nodes[i], wx, wy)
    THEN CHOOSE i \in 1..Len(nodes) :
             /\ Hit(nodes[i], wx, wy)
             /\ \A j \in 1..(i - 1) : ~Hit(nodes[j], wx, wy)
    ELSE 0

\* The callbacks onUp invokes for the node it hit.
Callbacks(n) ==
    IF n.type = "module" THEN <<[fn |-> "onFileSelect", arg |-> n.id]>>
    ELSE IF includes(n.id, "::")
         THEN <<[fn |-> "onFunctionClick", arg |-> split0(n.id, "::")]>>
         ELSE <<>>

\* onUp, the state it leaves
onUp(s, e) ==
    LET hit == FirstHit(s.nodes, World(e.x - Rect.left, s.pan.x, s.zoom),
                        World(e.y - Rect.top, s.pan.y, s.zoom))
    IN  IF moved(s, e) < 5 /\ hit # 0
        THEN [s EXCEPT !.dragging = FALSE,
                       !.particles.list = emit(@, s.nodes[hit].model, 500)]
        ELSE [s EXCEPT !.dragging = FALSE]

\* onUp, what it did: whether it ran the hit test, and the callbacks
upEvent(s, e) ==
    LET hit == FirstHit(s.nodes, World(e.x - Rect.left, s.pan.x, s.zoom),
                        World(e.y - Rect.top, s.pan.y, s.zoom))
    IN  Event("up", moved(s, e) < 5,
              IF moved(s, e) < 5 /\ hit # 0 THEN Callbacks(s.nodes[hit]) ELSE <<>>)

ClampZoomNoFloor(zoom) == RMin(Whole(4), zoom)

\* Math.max(0.2, Math.min(4, zoom * factor))
ClampZoom(zoom) == RMax(Rat(1, 5), RMin(Whole(4), zoom))

WheelPanKeeps(m, pan, zoom, oz) == pan

\* mx - (mx - s.pan.x) * (s.zoom / oz)
WheelPan(m, pan, zoom, oz) ==
    RSub(Whole(m), RMul(RSub(Whole(m), pan), RDiv(zoom, oz)))

\* onWheel
onWheel(s, e, deltaY) ==
    LET zoom == ClampZoom(RMul(s.zoom, IF deltaY > 0 THEN Rat(9, 10) ELSE Rat(11, 10)))
    IN  [s EXCEPT !.zoom = zoom,
                  !.pan = [x |-> WheelPan(e.x - Rect.left, s.pan.x, zoom, s.zoom),
                           y |-> WheelPan(e.y - Rect.top, s.pan.y, zoom, s.zoom)]]

\* The pointer moves to `to`; a mousemove goes to the canvas when the
\* pointer is over it after the move.  `travel` is the way the pointer has
\* gone since the button went down, in px and as far as 5 (history).
pointerMoves(to) ==
    /\ env.graph # Null
    /\ to # [x |-> env.pointer.x, y |-> env.pointer.y]
    /\ env' = [env EXCEPT !.pointer.x = to.x, !.pointer.y = to.y,
                          !.pointer.over = OnCanvas(to, env.size),
                          !.pointer.travel =
                              IF env.pointer.down
                              THEN Min2(5, @ + Abs(to.x - env.pointer.x)
                                             + Abs(to.y - env.pointer.y))
                              ELSE @]
    /\ cm' = IF OnCanvas(to, env.size) THEN onMove(cm, to) ELSE cm
    /\ UNCHANGED <<visualizerVars, lay, layouts, out>>

\* The button goes down: a mousedown goes to the canvas when the pointer
\* is over it.
press ==
    /\ env.graph # Null
    /\ ~env.pointer.down
    /\ env.gestures < MaxGestures
    /\ env' = [env EXCEPT !.pointer.down = TRUE, !.gestures = @ + 1]
    /\ cm' = IF env.pointer.over THEN onDown(cm, env.pointer) ELSE cm
    /\ out' = Event("down", FALSE, <<>>)
    /\ UNCHANGED <<visualizerVars, lay, layouts>>

\* The button goes up: a mouseup goes to the canvas when the pointer is
\* over it.
release ==
    /\ env.pointer.down
    /\ env' = [env EXCEPT !.pointer.down = FALSE, !.pointer.travel = 0]
    /\ cm' = IF env.pointer.over THEN onUp(cm, env.pointer) ELSE cm
    /\ out' = IF env.pointer.over THEN upEvent(cm, env.pointer)
              ELSE Event("away", FALSE, <<>>)
    /\ UNCHANGED <<visualizerVars, lay, layouts>>

\* The wheel turns over the canvas.
wheel(deltaY) ==
    /\ env.graph # Null
    /\ env.pointer.over
    /\ env.zooms < MaxZooms
    /\ cm' = onWheel(cm, env.pointer, deltaY)
    /\ env' = [env EXCEPT !.zooms = @ + 1]
    /\ UNCHANGED <<visualizerVars, lay, layouts, out>>

\* The Zoom in and Zoom out buttons, and Reset view.
zoomIn ==
    /\ env.graph # Null
    /\ env.zooms < MaxZooms
    /\ cm' = [cm EXCEPT !.zoom = RMin(Whole(4), RMul(@, Rat(13, 10)))]
    /\ env' = [env EXCEPT !.zooms = @ + 1]
    /\ UNCHANGED <<visualizerVars, lay, layouts, out>>
zoomOut ==
    /\ env.graph # Null
    /\ env.zooms < MaxZooms
    /\ cm' = [cm EXCEPT !.zoom = RMax(Rat(1, 5), RMul(@, Rat(7, 10)))]
    /\ env' = [env EXCEPT !.zooms = @ + 1]
    /\ UNCHANGED <<visualizerVars, lay, layouts, out>>
\* reset of CodeMap
resetView ==
    /\ env.graph # Null
    /\ cm.zoom # Whole(1) \/ cm.pan # [x |-> Whole(0), y |-> Whole(0)]
    /\ cm' = [cm EXCEPT !.pan = [x |-> Whole(0), y |-> Whole(0)], !.zoom = Whole(1)]
    /\ UNCHANGED <<visualizerVars, lay, layouts, env, out>>

\* The view of one analysis result under the wheel and the toolbar.
NextZoom ==
    \/ setGraph(GraphAB, <<300, 200>>)
    \/ \E to \in Points : pointerMoves(to)
    \/ \E deltaY \in {-100, 100} : wheel(deltaY)
    \/ zoomIn
    \/ zoomOut
    \/ resetView

SpecZoom == Init /\ [][NextZoom]_vars

\* The pointer over the animation of one analysis result.
NextPointer ==
    \/ \E graph \in {GraphAB, GraphSeparator} :
           env.builds = 0 /\ setGraph(graph, <<300, 200>>)
    \/ fireTimer
    \/ env.now < MaxPointerClock * TimeUnit /\ timePasses
    \/ \E spark \in BOOLEAN : tick(spark)
    \/ \E to \in Points : pointerMoves(to)
    \/ press
    \/ release
    \/ env.zooms < MaxPointerZooms /\ zoomOut
    \/ \E size \in CanvasSizes \ {<<0, 0>>}, d \in PixelRatios : resize(size, d)

SpecPointer == Init /\ [][NextPointer]_vars

----------------------------------------------------------------------------
(* Claims.                                                                 *)

\* C1: when the delay of a play loop that Pause, StepForward, Reset (or
\* Visualize) has cancelled expires, nothing changes: not the shown index,
\* not the highlight, not the playing flag.
C1_StaleDelayIsNoOp ==
    [][\A i \in 1..MaxLen :
          playLoopResume(i, TRUE) => UNCHANGED <<curStep, box, playing, playRef>>]_vars

\* Style of a highlighted edge, and of a node and an edge nothing highlights.
EdgeLit(e) == e.opacity = 100 /\ e.stroke = "#58a6ff" /\ e.strokeDasharray # ""
NodeNeutral(n) == n.opacity = 100 /\ n.filter = "none"
EdgeNeutral(e) ==
    e.opacity = 70 /\ e.stroke = "" /\ e.strokeDasharray = "" /\ e.animation = ""
Neutral(b) ==
    /\ \A k \in 1..Len(b.node) : NodeNeutral(b.node[k])
    /\ \A k \in 1..Len(b.edge) : EdgeNeutral(b.edge[k])

\* C2: StepForward clears the play flags and, at index i < L-1, shows
\* exactly i+1; at i = L-1 it leaves the shown index and the highlight alone.
C2_StepForward ==
    [][stepFwd =>
          /\ ~playRef' /\ ~playing'
          /\ curStep < Len(steps) - 1 => curStep' = curStep + 1
          /\ curStep = Len(steps) - 1 => UNCHANGED <<curStep, box>>]_vars

\* StepForward pressed at index 0 while a play loop slept: index 1 is shown
\* and the loop is left cancelled.
C2_Witness ==
    /\ lastCmd = Cmd("step", 0)
    /\ curStep = 1
    /\ ~playing
    /\ \E i \in 1..MaxLen : loops[<<i, TRUE>>] > 0

\* C3: Reset clears the play flags, sets the shown index to -1 and leaves
\* every node and every edge of the diagram in its neutral style.
C3_ResetNeutral ==
    [][reset => ~playRef' /\ ~playing' /\ curStep' = -1 /\ Neutral(box')]_vars

\* C4: once Play is pressed and nothing else is, playback ends at Done:
\* when no play loop is left, the playing flag is false and the shown index
\* is L-1.
C4_PlayEndsAtDone ==
    (lastCmd.op = "play" /\ Pending(loops) = 0 /\ Len(steps) > 0)
        => (~playing /\ curStep = Len(steps) - 1)

\* C5: Play pressed at Done (index L-1 of a non-empty list, not playing)
\* shows index 0.
C5_PlayFromDone ==
    [][(Play /\ Len(steps) > 0 /\ curStep = Len(steps) - 1) => curStep' = 0]_vars

\* Play was pressed at index 1 of a two-step list and index 0 is shown.
C5_Witness ==
    /\ lastCmd = Cmd("play", 1)
    /\ Len(steps) = 2
    /\ curStep = 0
    /\ playing

\* C6: Pause, and every step taken after it until the next user event,
\* leaves the shown index and the highlight as they are.
C6_PauseHolds ==
    [][(Pause \/ (lastCmd.op = "pause" /\ lastCmd'.op = "pause"))
          => UNCHANGED <<curStep, box>>]_vars

\* Paused before the last step, and the paused loop's delay has expired.
C6_Witness ==
    /\ lastCmd.op = "pause"
    /\ Pending(loops) = 0
    /\ curStep >= 0
    /\ curStep < Len(steps) - 1

\* C7: showStep(idx) with idx < 0 or idx >= length changes nothing.
C7_OutOfRangeNoOp ==
    [][\A idx \in ApiIdx :
          (callShowStep(idx) /\ (idx < 0 \/ idx >= Len(steps)))
              => UNCHANGED <<steps, curStep, playing, playRef, box, loops, error>>]_vars

\* showStep(-1) was called while a step of a rendered diagram was shown.
C7_Witness ==
    /\ lastCmd = Cmd("showStep", -1)
    /\ box.svg
    /\ curStep >= 0

\* C8: while index i >= 0 is shown, the nodes of steps 0..i have opacity of
\* at least 0.5, the node of step i has full opacity and the glow, and the
\* nodes of the steps after i are dimmed.
C8_TrailInvariant ==
    (box.svg /\ curStep >= 0 /\ curStep < Len(steps)) =>
        \A j \in 0..(Len(steps) - 1) :
            LET n == QueryNode(variant, box, steps[j + 1].sid)
            IN  n # 0 =>
                  /\ j <= curStep => box.node[n].opacity >= 50
                  /\ j = curStep =>
                        box.node[n].opacity = 100 /\ box.node[n].filter \in Glows
                  /\ j > curStep => box.node[n].opacity = NodeDim(variant)

\* The edge of the diagram from the node of the parent of every step 0..i
\* that records a parent id (0 is an id) is highlighted.
ParentEdgesLit(b, all, i) ==
    \A j \in 1..(i + 1) :
        all[j].parent # NoParent =>
            LET ps == FindStep(all, all[j].parent)
            IN  ps # 0 =>
                  \A k \in 1..Len(b.edge) :
                      b.edge[k].id = EdgeId(all[ps].sid, all[j].sid)
                          => EdgeLit(b.edge[k])

\* C9: whenever a step is shown (the shown index changes to i >= 0), the
\* parent edge of every step 0..i is highlighted.
C9_ParentEdgesLit ==
    [][(curStep' # curStep /\ curStep' >= 0)
          => ParentEdgesLit(box', steps', curStep')]_vars

\* C10: when Visualize succeeds the controller is Idle: index -1, not
\* playing, nothing highlighted, and the step list is the returned one.
C10_LoadLeavesIdle ==
    [][renderResolved =>
          /\ curStep' = -1
          /\ ~playing' /\ ~playRef'
          /\ Neutral(box')
          /\ steps' = loadData.steps]_vars

\* C11: when a Visualize fails (the fetch, the missing diagram, the renderer
\* or the render), the error is a message and the rendered flag, the
\* diagram in the box, the step list and (in part_004, whose loadFlow holds
\* it) the shown index are what they were when Visualize was pressed.
C11_FailedLoadLeavesDiagram ==
    [][(loadPc # "idle" /\ loadPc' = "idle" /\ error' # "null") =>
          /\ rendered' = before.rendered
          /\ box'.svg = before.svg
          /\ steps' = before.steps
          /\ variant = V4 => curStep' = loadCur]_vars

\* C12: while the step list is not the trace of the active file, Play,
\* StepForward and a click on a diagram node show no step.
C12_NoStepOfOtherFile ==
    [][(/\ stepsFile # activeFile
        /\ (Play \/ stepFwd \/ \E k \in 1..MaxLen : click(k)))
          => UNCHANGED <<curStep, box>>]_vars

\* C13 as stated: the delay set for slider position v is the slider's
\* maximum minus v.
C13_DelayIsMaxMinusV ==
    [][\A v \in SliderPositions : onSpeedChange(v) => LoopDelay' = SliderMax - v]_vars

\* C13 amended: the delay set for slider position v is 2200 - v, the
\* slider's minimum plus its maximum minus v.
C13_DelayIsSumMinusV ==
    [][\A v \in SliderPositions :
          onSpeedChange(v) => LoopDelay' = SliderMin + SliderMax - v]_vars

\* The slider was moved to its fastest position while a loop was playing.
C13_Witness ==
    /\ lastCmd = Cmd("speed", SliderMax)
    /\ LoopDelay = SliderMin
    /\ playing

\* C14: the delay of the play loop is within 200..2000 ms, a move of the
\* slider to a larger position makes it strictly smaller (to a smaller
\* position, larger), and the position displayed for the delay maps back to
\* the delay.
C14_DelayRangeOrderRoundTrip ==
    [][/\ LoopDelay' \in SliderMin..SliderMax
       /\ SpeedOf(SliderValue(LoopDelay')) = LoopDelay'
       /\ SliderValue(LoopDelay') \in SliderPositions
       /\ \A v \in SliderPositions :
            onSpeedChange(v) =>
               /\ SliderValue(LoopDelay') = v
               /\ v > SliderValue(LoopDelay) => LoopDelay' < LoopDelay
               /\ v < SliderValue(LoopDelay) => LoopDelay' > LoopDelay]_vars

\* The slider was moved to its slowest position and a play loop waits.
C14_Witness ==
    /\ lastCmd.op = "play"
    /\ LoopDelay = SliderMax
    /\ SliderValue(LoopDelay) = SliderMin
    /\ Pending(loops) > 0

\* C15 as stated: for every canvas size, zero and sizes below 80 included,
\* every node of a finished layout has x in [40, W - 40] and y in [40, H - 40].
C15_FinalInsideMargins ==
    lay.pc = "done" =>
        \A i \in 1..Len(lay.nodes) :
            /\ lay.nodes[i].tx >= Margin * 1000
            /\ lay.nodes[i].tx <= (lay.W - Margin) * 1000
            /\ lay.nodes[i].ty >= Margin * 1000
            /\ lay.nodes[i].ty <= (lay.H - Margin) * 1000

\* C15 amended: every node of a finished layout has x in [40, W - 40] when
\* W >= 80 and x = 40 when W < 80, and likewise y with H.
C15_FinalClamped ==
    lay.pc = "done" =>
        \A i \in 1..Len(lay.nodes) :
            LET n == lay.nodes[i]
            IN  /\ lay.W >= 2 * Margin =>
                     n.tx >= Margin * 1000 /\ n.tx <= (lay.W - Margin) * 1000
                /\ lay.W < 2 * Margin => n.tx = Margin * 1000
                /\ lay.H >= 2 * Margin =>
                     n.ty >= Margin * 1000 /\ n.ty <= (lay.H - Margin) * 1000
                /\ lay.H < 2 * Margin => n.ty = Margin * 1000

\* A layout of four or more nodes finished on a canvas 60 wide and 300 high,
\* and one node ended strictly inside the vertical margins.
C15_Witness ==
    /\ lay.pc = "done"
    /\ lay.W = 60 /\ lay.H = 300
    /\ Len(lay.nodes) >= 4
    /\ \E i \in 1..Len(lay.nodes) :
          lay.nodes[i].ty > Margin * 1000 /\ lay.nodes[i].ty < (lay.H - Margin) * 1000

\* The indices of the child nodes, and of the nodes of a type.
NodesOfType(nodes, type) == {i \in 1..Len(nodes) : nodes[i].type = type}
ChildNodes(nodes) == NodesOfType(nodes, "function") \cup NodesOfType(nodes, "class")

\* C17: a finished layout of N modules has N module nodes, in order; per
\* module min(2, functions) function nodes and min(1, classes) class nodes
\* with ids module::member; exactly one parent-child edge per child node,
\* from the node of its module; and exactly one imports edge for every
\* entry of edges[] that names two modules.  The two-module scenario gives
\* 4 nodes and 3 edges.
C17_BuilderCounts ==
    (lay.pc = "done" /\ ~lay.graph.absent) =>
        LET mods  == lay.graph.modules
            nodes == lay.nodes
            edges == lay.edges
            N     == Len(mods)
        IN  /\ NodesOfType(nodes, "module") = 1..N
            /\ \A i \in 1..N : nodes[i].id = mods[i].module
            /\ Cardinality(NodesOfType(nodes, "function")) =
                 SumTo([i \in 1..N |-> Min2(2, Len(mods[i].functions))], N)
            /\ Cardinality(NodesOfType(nodes, "class")) =
                 SumTo([i \in 1..N |-> Min2(1, Len(mods[i].classes))], N)
            /\ \A i \in 1..N :
                 /\ \A j \in 1..Min2(2, Len(mods[i].functions)) :
                      \E c \in NodesOfType(nodes, "function") :
                          nodes[c].id = mods[i].module \o "::" \o mods[i].functions[j]
                 /\ \A j \in 1..Min2(1, Len(mods[i].classes)) :
                      \E c \in NodesOfType(nodes, "class") :
                          nodes[c].id = mods[i].module \o "::" \o mods[i].classes[j]
            /\ \A c \in ChildNodes(nodes) :
                 /\ Cardinality({k \in 1..Len(edges) :
                                   edges[k].label = "" /\ edges[k].tgt = c}) = 1
                 /\ \A k \in 1..Len(edges) :
                      (edges[k].label = "" /\ edges[k].tgt = c) =>
                          /\ edges[k].src \in 1..N
                          /\ \E m \in ModulePaths, name \in {"f", "g", "h", "C", "D"} :
                                /\ nodes[edges[k].src].id = m
                                /\ nodes[c].id = m \o "::" \o name
            /\ Cardinality({k \in 1..Len(edges) : edges[k].label = ""}) =
                 Cardinality(ChildNodes(nodes))
            /\ \A e \in 1..Len(lay.gEdges) :
                 (KnownModule(nodes, lay.gEdges[e].source)
                    /\ KnownModule(nodes, lay.gEdges[e].target)) =>
                     Cardinality({k \in 1..Len(edges) :
                         /\ edges[k].label = "imports"
                         /\ edges[k].delay = CrossDelay(N, e - 1)
                         /\ edges[k].src = Lookup(nodes, lay.gEdges[e].source)
                         /\ edges[k].tgt = Lookup(nodes, lay.gEdges[e].target)}) = 1
            /\ (/\ mods = <<Module("a.py", <<"f">>, <<>>), Module("b.py", <<>>, <<"C">>)>>
                /\ lay.gEdges = <<[source |-> "a.py", target |-> "b.py"]>>)
                  => Len(nodes) = 4 /\ Len(edges) = 3

\* The two-module scenario finished: a.py with f, b.py with C, a.py -> b.py.
C17_Witness ==
    /\ lay.pc = "done"
    /\ lay.graph.modules = <<Module("a.py", <<"f">>, <<>>), Module("b.py", <<>>, <<"C">>)>>
    /\ lay.gEdges = <<[source |-> "a.py", target |-> "b.py"]>>
    /\ {lay.nodes[i].id : i \in 1..Len(lay.nodes)} = {"a.py", "b.py", "a.py::f", "b.py::C"}

\* C18: every imports edge of a finished layout comes from an entry of
\* edges[] whose source and target are both ids of module nodes: an entry
\* that names anything else leaves no edge.
C18_UnknownEntryDropped ==
    lay.pc = "done" =>
        \A k \in 1..Len(lay.edges) :
            lay.edges[k].label = "imports" =>
                \E e \in 1..Len(lay.gEdges) :
                    /\ lay.edges[k].delay = CrossDelay(Len(lay.graph.modules), e - 1)
                    /\ KnownModule(lay.nodes, lay.gEdges[e].source)
                    /\ KnownModule(lay.nodes, lay.gEdges[e].target)

\* C19: with modules absent or empty the finished layout has no node and
\* no edge, whatever edges[] holds.
C19_NoModulesNoGraph ==
    (lay.pc = "done" /\ (lay.graph.absent \/ lay.graph.modules = <<>>)) =>
        lay.nodes = <<>> /\ lay.edges = <<>>

\* C20: the start delay of every parent-child edge is the start delay of
\* its child node plus 0.02 s, the child's being i * 0.1 + (j + 1) * 0.06 s.
C20_ChildEdgeDelay ==
    lay.pc # "idle" =>
        \A k \in 1..Len(lay.edges) :
            lay.edges[k].label = "" =>
                lay.edges[k].delay = lay.nodes[lay.edges[k].tgt].delay + 20

\* C28: in the solver iterations the spring step acts on every edge of the
\* graph forceLayout returns, the cross-module import edges as well as the
\* parent-child edges: every edge of the result between two nodes is in the
\* edge list the iterations ran over.
C28_SpringsOverAllEdges ==
    [][(lay.pc = "solve" /\ lay'.pc = "done") =>
          \A k \in 1..Len(lay'.edges) :
              (lay'.edges[k].src > 0 /\ lay'.edges[k].tgt > 0) =>
                  \E m \in 1..Len(lay.edges) : lay.edges[m] = lay'.edges[k]]_vars

\* A node of the list at the end `ref` of an edge has started.
Started(ref) == ref \in 1..Len(cm.nodes) /\ cm.nodes[ref].visible

\* C21: in every state a frame can read, an edge that has non-zero reveal
\* progress or is drawn has both of its endpoint nodes started.
C21_EdgeAfterEndpoints ==
    \A k \in 1..Len(cm.edges) :
        (cm.edges[k].progress > 0 \/ Drawn(cm.edges[k])) =>
            Started(cm.edges[k].src) /\ Started(cm.edges[k].tgt)

\* C22: while a graph model is alive the phase of each of its nodes only
\* advances: a started node stays started, start() has run at most once,
\* and p = min(1, t / duration) does not decrease from one step to the next.
C22_NodePhaseAdvances ==
    [][\A i \in 1..Len(cm.nodes) :
           (i <= Len(cm'.nodes) /\ cm'.nodes[i].model = cm.nodes[i].model) =>
               /\ cm.nodes[i].visible => cm'.nodes[i].visible
               /\ cm'.nodes[i].starts <= 1
               /\ NodeProgress(cm'.nodes[i].t) >= NodeProgress(cm.nodes[i].t)]_vars

\* A node has come to rest (p = 1) while another of the same model is
\* under way.
C22_Witness ==
    \E i, j \in 1..Len(cm.nodes) :
        /\ cm.nodes[i].visible /\ NodeProgress(cm.nodes[i].t) = 1000
        /\ cm.nodes[j].visible /\ NodeProgress(cm.nodes[j].t) \in 1..999
        /\ cm.nodes[i].starts = 1

\* (c - pan) / zoom: the model point under the canvas coordinate c
ModelPoint(c, pan, zoom) == RDiv(RSub(Whole(c), pan), zoom)

\* C23: a wheel event at the cursor leaves the model point under the
\* cursor where it was, (c - p) / z = (c - p') / z' in both coordinates,
\* also when the new zoom is clamped at 0.2 or at 4.
C23_WheelKeepsPointUnderCursor ==
    [][(\E deltaY \in {-100, 100} : wheel(deltaY)) =>
          /\ ModelPoint(env.pointer.x - Rect.left, cm'.pan.x, cm'.zoom)
                 = ModelPoint(env.pointer.x - Rect.left, cm.pan.x, cm.zoom)
          /\ ModelPoint(env.pointer.y - Rect.top, cm'.pan.y, cm'.zoom)
                 = ModelPoint(env.pointer.y - Rect.top, cm.pan.y, cm.zoom)]_vars

\* The wheel has turned at (150, 40) of the canvas with the zoom at 1.3^5:
\* the new zoom is clamped at 4 and the pan is 150 - 150 * 4 / 1.3^5.
C23_Witness ==
    /\ cm.zoom = Whole(4)
    /\ cm.pan.x = Rat(-4306050, 371293)
    /\ cm.pan.y = Rat(-1148280, 371293)

\* C24: a pointer-move changes the pan only while the pointer is down, and
\* then the pan is the pan recorded at the last pointer-down plus the way
\* the pointer has gone since; a pointer-move after the pointer was
\* released, on the canvas or outside it, leaves the pan as it is.
C24_MovePansOnlyWhileDown ==
    [][\A to \in Points :
          pointerMoves(to) =>
              /\ ~env.pointer.down => cm'.pan = cm.pan
              /\ (env.pointer.down /\ cm'.pan # cm.pan) =>
                     cm'.pan = [x |-> RAdd(cm.panStart.x, Whole(to.x - cm.dragStart.x)),
                                y |-> RAdd(cm.panStart.y, Whole(to.y - cm.dragStart.y))]]_vars

\* The path of the module of the graph that owns the member node `id`.
Owner(graph, id) ==
    (CHOOSE m \in {graph.modules[i] : i \in 1..Len(graph.modules)} :
         \E name \in {m.functions[j] : j \in 1..Len(m.functions)} \cup
                     {m.classes[j] : j \in 1..Len(m.classes)} :
             id = m.module \o "::" \o name).module

\* The started nodes whose hit region holds the point of the release.
HitNodes ==
    {i \in 1..Len(cm.nodes) :
         /\ cm.nodes[i].visible
         /\ Hit(cm.nodes[i], World(env.pointer.x - Rect.left, cm.pan.x, cm.zoom),
                World(env.pointer.y - Rect.top, cm.pan.y, cm.zoom))}

\* C25: on a click the first started node in list order that is hit wins:
\* a module node gives one call of onFileSelect with its id, a member node
\* one call of onFunctionClick with the path of its module; no started
\* node hit gives no call.
C25_ClickCallbacks ==
    [][(release /\ env.pointer.over /\ out'.tested) =>
          out'.calls =
              IF HitNodes = {} THEN <<>>
              ELSE LET n == cm.nodes[CHOOSE i \in HitNodes : \A j \in HitNodes : i <= j]
                   IN  IF n.type = "module"
                       THEN <<[fn |-> "onFileSelect", arg |-> n.id]>>
                       ELSE <<[fn |-> "onFunctionClick",
                               arg |-> Owner(env.graph, n.id)]>>]_vars

\* C26: when the button goes up after the pointer has moved 5 px or more
\* in total since it went down, onUp runs no hit test and calls neither
\* onFileSelect nor onFunctionClick, wherever the pointer ends.
C26_DragIsNoClick ==
    [][(release /\ env.pointer.travel >= 5) =>
          ~out'.tested /\ out'.calls = <<>>]_vars

\* C27: a resize of the canvas leaves the pan, the zoom, every node (its
\* target position and its animation) and every edge as they are; the size
\* and the backing resolution of the canvas are all that changes.
C27_ResizeKeepsView ==
    [][(env'.builds = env.builds /\ env'.size # env.size) =>
          /\ cm'.pan = cm.pan /\ cm'.zoom = cm.zoom
          /\ cm'.nodes = cm.nodes /\ cm'.edges = cm.edges
          /\ env'.backing = Backing(env'.size, env'.dpr)
          /\ env' = [env EXCEPT !.size = env'.size, !.backing = env'.backing]]_vars

\* The canvas was resized to 60 x 300 px with the view panned and zoomed
\* out, one node at rest at its target and another on its way.
C27_Witness ==
    /\ env.size = <<60, 300>> /\ env.backing = <<120, 600>>
    /\ cm.pan.y # Whole(0) /\ cm.zoom = Rat(7, 10)
    /\ \E i \in 1..Len(cm.nodes) :
           /\ cm.nodes[i].visible /\ NodeProgress(cm.nodes[i].t) \in 1..999
           /\ cm.nodes[i].tx = layouts[env.graph, <<300, 200>>].nodes[i].tx
           /\ cm.nodes[i].ty = layouts[env.graph, <<300, 200>>].nodes[i].ty

\* C29: when a start timer of a model that a newer analysis result has
\* replaced runs, nothing of the new model changes: not its nodes, not its
\* edges, not its particle system.
C29_StaleTimerChangesNothing ==
    [][(fireTimer /\ NextTimer(env.timers).model # env.builds) =>
          /\ cm'.nodes = cm.nodes
          /\ cm'.edges = cm.edges
          /\ cm'.particles = cm.particles]_vars

\* What forceLayout returned for the graph on the canvas as it was mounted.
Mounted == layouts[env.graph, <<300, 200>>]

\* C30: in every state a frame can read, the node list and the edge list
\* are those of the newest graph model, whole: every node and every edge was
\* made by the last build, and the targets are the positions forceLayout
\* returned after all its iterations.
C30_FrameSeesOneSolvedModel ==
    env.builds > 0 =>
        /\ Len(cm.nodes) = Len(Mounted.nodes) /\ Len(cm.edges) = Len(Mounted.edges)
        /\ cm.particles.of = env.builds
        /\ \A i \in 1..Len(cm.nodes) :
               /\ cm.nodes[i].model = env.builds
               /\ cm.nodes[i].id = Mounted.nodes[i].id
               /\ cm.nodes[i].tx = Mounted.nodes[i].tx
               /\ cm.nodes[i].ty = Mounted.nodes[i].ty
        /\ \A k \in 1..Len(cm.edges) :
               /\ cm.edges[k].model = env.builds
               /\ cm.edges[k].src = Mounted.edges[k].src
               /\ cm.edges[k].tgt = Mounted.edges[k].tgt

\* A frame has run on the second model while start timers of the first
\* are still pending.
C30_Witness ==
    /\ env.builds = 2 /\ env.lastT = env.now /\ env.now > 0
    /\ \E tm \in env.timers : tm.model = 1
    /\ \E i \in 1..Len(cm.nodes) : cm.nodes[i].visible /\ cm.nodes[i].t > 0
    /\ \E tm \in env.timers : tm.model = 2 /\ tm.kind = "edge"

\* C32: the zoom of the Code Map is within [0.2, 4] after any sequence of
\* wheel events, presses of the zoom buttons, view resets and graph
\* replacements.
C32_ZoomInRange ==
    ~RLess(cm.zoom, Rat(1, 5)) /\ ~RLess(Whole(4), cm.zoom)

\* The wheel has brought the zoom down to the lower limit, moving the pan.
C32_Witness ==
    cm.zoom = Rat(1, 5) /\ cm.pan.y # Whole(0) /\ env.builds > 0

\* C31: after Play was pressed and before any other user command, every
\* delay expiry of a play loop that shows a step shows the index one
\* greater than the index shown before it.
C31_PlayShowsConsecutive ==
    [][\A k \in LoopKeys :
          (/\ lastCmd.op = "play"
           /\ playLoopResume(k[1], k[2])
           /\ LoopRuns(playRef, k[1], Len(steps))) => curStep' = curStep + 1]_vars

\* C33: after showStep(i) the highlighted edges of the diagram are edges
\* from the node of the parent step to the node of step j, for a j <= i
\* that has a parent; no other edge is highlighted.
C33_OnlyParentEdgesLit ==
    [][\A idx \in 0..(Len(steps) - 1) :
          callShowStep(idx) =>
              \A k \in 1..Len(box'.edge) :
                  EdgeLit(box'.edge[k]) =>
                      \E j \in 1..(idx + 1) :
                          /\ steps[j].parent # NoParent
                          /\ FindStep(steps, steps[j].parent) # 0
                          /\ box'.edge[k].id =
                                 EdgeId(steps[FindStep(steps, steps[j].parent)].sid,
                                        steps[j].sid)]_vars

\* C34: every Visualize eventually ends with the loading flag false, on
\* every path of loadFlow: success, a failed request, a failed render and a
\* missing diagram container.
C34_LoadingEnds ==
    loading ~> ~loading

\* C35: when the 300 ms timer of a Run fires while the Terminal component is
\* mounted and its socket is open, the command `python <file>` followed by
\* a carriage return is sent on that socket.
C35_RunReachesTerminal ==
    [][(runTimerFires /\ term.visible /\ term.ws = "open") =>
           term'.sent = Append(term.sent, Head(term.runs) \o "\r")]_vars

\* C36: no two of the open editor tabs have the same path.
C36_TabPathsDistinct ==
    \A i, j \in 1..Len(ed.tabs) : i # j => ed.tabs[i].path # ed.tabs[j].path

\* C37: a tab that is marked not modified holds the content the backend
\* holds for its file, the one last written to it or read from it.
C37_CleanTabIsSaved ==
    \A i \in 1..Len(ed.tabs) :
        ~ed.tabs[i].modified => ed.tabs[i].content = ed.disk[ed.tabs[i].path]

\* What C38 says of every state: no more attempts than maxRetries; a
\* resolved promise has had its response at the first attempt that did not
\* fail and no attempt after it; a rejected promise has had exactly
\* maxRetries attempts, all failed; the window is created once, after the
\* promise has settled.
WaitForServerSafe ==
    /\ boot.attempts <= boot.maxRetries
    /\ boot.promise = "resolved" =>
           boot.failed = boot.attempts - 1 /\ ~boot.request /\ ~boot.timer
    /\ boot.promise = "rejected" =>
           boot.attempts = boot.maxRetries /\ boot.failed = boot.maxRetries
                                           /\ ~boot.request /\ ~boot.timer
    /\ boot.promise = "pending" => boot.created = 0 /\ boot.failed = boot.attempts - (IF boot.request THEN 1 ELSE 0)
    /\ boot.created = (IF boot.pc = "done" THEN 1 ELSE 0)

====
